---- MODULE Spec2Model ----
(***************************************************************************)
(* Model of the query stage of datacite-ror: the registry client           *)
(* (src/src/query/client.rs), the checkpoint store                         *)
(* (src/src/query/checkpoint.rs) and the orchestrator run_async            *)
(* (src/src/query/mod.rs); of the fingerprint function (src/src/lib.rs)    *)
(* and of the grouping of the reconcile stage (src/src/reconcile/mod.rs).  *)
(*                                                                         *)
(* Strings are sequences of one-character (or one-word) tokens, so that    *)
(* formatting, line splitting and substring tests are computed.            *)
(***************************************************************************)
EXTENDS Integers, Sequences, FiniteSets, TLC

VARIABLES
    checkpoint,      \* the in-memory Checkpoint object: [live, processed]
    cpFile,          \* ror_matches.checkpoint on disk: [exists, data]
    matchesFile,     \* ror_matches.jsonl on disk: [exists, data], data the records
    failedFile,      \* ror_matches.failed.jsonl on disk
    matches_writer,  \* the records buffered in the BufWriter of the match sink
    failed_writer,   \* the records buffered in the BufWriter of the failure sink
    locks,           \* holder of each tokio Mutex: matches, failed, checkpoint
    run,             \* where run_async is: idle, running, flushed_matches, flushed_failed, ok, err
    runs,            \* number of runs started
    faults,          \* number of I/O faults the file system has answered with
    resume,          \* args.resume of the current run
    concurrency,     \* the concurrency limit given to RorClient::new
    fallback_multi,  \* the fallback_multi argument of query_affiliation
    permits,         \* available permits of RorClient.semaphore
    units,           \* the spawned calls, by affiliation: [pc, permit, phase, attempt, wait, res]
    traced,          \* history switch: whether log, sent and lastResp are kept
    log,             \* history: per call, its logical requests in order: [url, result]
    sent,            \* history: per call, the HTTP sends: [total, cur, n429]
    lastResp,        \* history: per call, a summary of the latest response
    answers,         \* history: per call, whether every answer so far was 200 with no candidate
    queried,         \* history: the affiliations the current run sent a request for
    atStart,         \* history: the input of the current run, and what it found on disk
    ckLast,          \* history: the last Checkpoint operation and its result
    ckSaved,         \* history: the set written by the last save that reached the file
    hashes,          \* the calls of hash_affiliation made so far: [input, output]
    reconcile,       \* the locals of reconcile::run: [input, ror_lookup, pos, ...]
    extract          \* the extract stage: a call of parse_affiliations, or extract::run

------------------------------------------------------------------------------
(* Strings *)

RECURSIVE Concat(_)
\* The concatenation of a sequence of strings.
Concat(ss) ==
    IF ss = <<>> THEN <<>> ELSE Head(ss) \o Concat(Tail(ss))

\* str::contains: sub occurs in s as a contiguous substring.
Contains(s, sub) ==
    \E i \in 1..(Len(s) - Len(sub) + 1) : SubSeq(s, i, i + Len(sub) - 1) = sub

\* All orders in which the elements of a finite set can be iterated.
Orders(S) ==
    {f \in [1..Cardinality(S) -> S] : \A i, j \in 1..Cardinality(S) : f[i] = f[j] => i = j}

------------------------------------------------------------------------------
(* Affiliation inputs and fingerprints (src/src/query/mod.rs:18-20) *)

AffA == <<"M", "I", "T">>
AffB == <<"O", "x", "f", "o", "r", "d">>
AffC == <<"B", "o", "x", " ", "5", "0", "0">>
Affs == {AffA, AffB, AffC}

\* Width of the fingerprint, from the format string "{:016x}".
HashWidth == 16

\* The empty string, and a string with characters outside ASCII (as_bytes gives
\* their UTF-8 bytes).
AffEmpty == <<>>
AffAccent == <<"U", "n", "i", "v", "U+00E9">>

\* A u64 as its 16 hexadecimal digits (numbers 0..15), most significant first, given
\* by its significant digits.
U64(ds) == [i \in 1..16 |-> IF i <= 16 - Len(ds) THEN 0 ELSE ds[i - (16 - Len(ds))]]

\* xxh3_64 is a library hash: modelled as a fixed injective table of 64-bit digests,
\* among them short ones, the largest one and the one of the empty input.
xxh3_64(aff) ==
    CASE aff = AffA -> U64(<<10, 11, 12>>)
      [] aff = AffB -> U64(<<12, 10, 15, 14>>)
      [] aff = AffC -> U64(<<7>>)
      [] aff = AffEmpty -> U64(<<2, 13, 0, 6, 8, 0, 0, 5, 3, 8, 13, 3, 9, 4, 12, 2>>)
      [] aff = AffAccent -> U64(<<15, 15, 15, 15, 15, 15, 15, 15, 15, 15, 15, 15, 15, 15, 15, 15>>)
      [] OTHER -> U64(<<>>)

HexDigit(d) ==
    <<"0", "1", "2", "3", "4", "5", "6", "7", "8", "9", "a", "b", "c", "d", "e", "f">>[d + 1]

RECURSIVE LowerHex(_)
\* The digits of {:x}: lower-case hexadecimal without padding, so without the
\* leading zeros of the value (a single "0" for zero).
LowerHex(n) ==
    IF Len(n) > 1 /\ Head(n) = 0 THEN LowerHex(Tail(n))
    ELSE [i \in 1..Len(n) |-> HexDigit(n[i])]

RECURSIVE ZeroPad(_, _)
\* The 0-flag of a format width: pad on the left with "0" up to width w.
ZeroPad(s, w) ==
    IF Len(s) >= w THEN s ELSE ZeroPad(<<"0">> \o s, w)

\* A fingerprint without the width of the format.
hash_affiliation_NoPad(aff) == LowerHex(xxh3_64(aff))

hash_affiliation(aff) == ZeroPad(LowerHex(xxh3_64(aff)), HashWidth)

Fingerprints == {hash_affiliation(a) : a \in Affs}

------------------------------------------------------------------------------
(* Checkpoint (src/src/query/checkpoint.rs) *)

NL == "\n"
CR == "\r"

\* A file that does not exist.
NoFile == [exists |-> FALSE, data |-> <<>>]

FileOf(data) == [exists |-> TRUE, data |-> data]

\* Position of the first newline of s, 0 if there is none.
FirstNL(s) ==
    IF \E i \in 1..Len(s) : s[i] = NL
    THEN CHOOSE i \in 1..Len(s) : s[i] = NL /\ \A j \in 1..(i - 1) : s[j] # NL
    ELSE 0

RECURSIVE lines(_)
\* BufRead::lines: split at "\n"; a terminated line also loses a trailing "\r";
\* an unterminated last line is yielded as it is.
lines(s) ==
    IF s = <<>> THEN <<>>
    ELSE LET i == FirstNL(s) IN
         IF i = 0 THEN <<s>>
         ELSE LET l == SubSeq(s, 1, i - 1)
                  chomped == IF l # <<>> /\ l[Len(l)] = CR THEN SubSeq(l, 1, Len(l) - 1) ELSE l
              IN <<chomped>> \o lines(SubSeq(s, i + 1, Len(s)))

\* Checkpoint::new
new == [live |-> TRUE, processed |-> {}]

\* A load that inserts every line, blank or not.
load_KeepsBlank(file, io_ok) ==
    IF file.exists
    THEN IF io_ok
         THEN [ok |-> TRUE,
               cp |-> [live |-> TRUE,
                       processed |-> {lines(file.data)[i] : i \in 1..Len(lines(file.data))}]]
         ELSE [ok |-> FALSE, cp |-> [live |-> FALSE, processed |-> {}]]
    ELSE [ok |-> TRUE, cp |-> new]

\* Checkpoint::load: Ok(checkpoint) or Err. io_ok is whether File::open and every
\* read succeed; they are only attempted when the path exists.
load(file, io_ok) ==
    IF file.exists
    THEN IF io_ok
         THEN [ok |-> TRUE,
               cp |-> [live |-> TRUE,
                       processed |-> {lines(file.data)[i] : i \in
                                        {j \in 1..Len(lines(file.data)) : lines(file.data)[j] # <<>>}}]]
         ELSE [ok |-> FALSE, cp |-> [live |-> FALSE, processed |-> {}]]
    ELSE [ok |-> TRUE, cp |-> new]

\* A mark that replaces the set by the new fingerprint.
mark_processed_Replace(cp, hash) == [cp EXCEPT !.processed = {hash}]

\* Checkpoint::mark_processed
mark_processed(cp, hash) == [cp EXCEPT !.processed = @ \cup {hash}]

\* A checkpoint that reports nothing as processed.
is_processed_Never(cp, hash) == FALSE

\* Checkpoint::is_processed
is_processed(cp, hash) == hash \in cp.processed

\* Checkpoint::len
len(cp) == Cardinality(cp.processed)

\* writeln!(writer, "{}", hash)
writeln(hash) == hash \o <<NL>>

\* The bytes save writes when it iterates the set in the given order.
SaveData(order) == Concat([i \in 1..Len(order) |-> writeln(order[i])])

\* A save that opens the file for append instead of truncating it.
save_Appends(cp, file, order, fault) ==
    CASE fault = "create" -> [ok |-> FALSE, file |-> file]
      [] fault = "write"  -> [ok |-> FALSE, file |-> FileOf(file.data)]
      [] OTHER            -> [ok |-> TRUE, file |-> FileOf(file.data \o SaveData(order))]

\* Checkpoint::save: File::create truncates the file, then every member is written
\* in the set's iteration order and the writer is flushed.
\* fault "create": File::create fails, the file is untouched;
\* fault "write": a write or the flush fails after the truncation.
save(cp, file, order, fault) ==
    CASE fault = "create" -> [ok |-> FALSE, file |-> file]
      [] fault = "write"  -> [ok |-> FALSE, file |-> FileOf(<<>>)]
      [] OTHER            -> [ok |-> TRUE, file |-> FileOf(SaveData(order))]

SaveFaults == {"none", "create", "write"}

------------------------------------------------------------------------------
(* The registry and its responses (src/src/query/client.rs:10-24) *)

\* Largest number of candidates in a response body.
MaxItems == 2

RorIds == {"https://ror.org/052gg0110", "https://ror.org/abc123"}

\* JSON null, for RorItem.chosen and RorItem.organization.
Null == "null"

\* RorItem: chosen is Option<bool>, organization is Option<RorOrganization>. The
\* items flagged true carry either organization or none; of the items that are
\* not flagged, which extract_chosen_ror_id passes over without a look at the
\* organization, one has chosen false, one has no chosen member, one has neither.
Items ==
    [chosen : {"true"}, organization : RorIds \cup {Null}]
      \cup {[chosen |-> "false", organization |-> "https://ror.org/052gg0110"],
            [chosen |-> Null, organization |-> "https://ror.org/abc123"],
            [chosen |-> "false", organization |-> Null]}

\* RorResponse.items
Bodies == UNION {[1..n -> Items] : n \in 0..MaxItems}

NoHeader == [present |-> FALSE, value |-> <<>>]

\* Retry-After: absent, a number of seconds (zero included), or something that is
\* no u64 (a word, a negative number).
RetryAfterHeaders ==
    {NoHeader,
     [present |-> TRUE, value |-> <<"7">>],
     [present |-> TRUE, value |-> <<"0">>],
     [present |-> TRUE, value |-> <<"-", "1">>],
     [present |-> TRUE, value |-> <<"s", "o", "o", "n">>]}

HttpResponse(status, decodable, items, retry_after) ==
    [t |-> "http", status |-> status, decodable |-> decodable, items |-> items,
     retry_after |-> retry_after]

\* What one send can come back with: a response, or a transport-level error.
Responses ==
    {HttpResponse(200, TRUE, b, NoHeader) : b \in Bodies}
        \cup {HttpResponse(200, FALSE, <<>>, NoHeader)}
        \cup {HttpResponse(s, FALSE, <<>>, NoHeader) : s \in {404, 500, 503}}
        \cup {HttpResponse(429, FALSE, <<>>, h) : h \in RetryAfterHeaders}
        \cup {[t |-> "transport", status |-> 0, decodable |-> FALSE, items |-> <<>>,
               retry_after |-> NoHeader]}

------------------------------------------------------------------------------
(* RorClient (src/src/query/client.rs) *)

\* urlencoding::encode, token by token: unreserved characters stay, others become %XX.
encode(s) ==
    Concat([i \in 1..Len(s) |->
              CASE s[i] = " " -> <<"%", "2", "0">>
                [] s[i] = "%" -> <<"%", "2", "5">>
                [] OTHER -> <<s[i]>>])

base_url == <<"http://localhost:9292">>

\* The URL of each phase's request: phases 1 and 3 quote the phrase, phases 1 and 2
\* add single_search.
url_of(phase, affiliation) ==
    LET quote == IF phase \in {1, 3} THEN <<"\"">> ELSE <<>>
        single == IF phase \in {1, 2} THEN <<"&single_search">> ELSE <<>>
    IN base_url \o <<"/v2/organizations?affiliation=">> \o quote \o encode(affiliation)
           \o quote \o single

IsQuoted(url) == url[3] = "\""
IsSingle(url) == url[Len(url)] = "&single_search"

max_retries == 3

Digit(d) == <<"0", "1", "2", "3", "4", "5", "6", "7", "8", "9">>[d + 1]

RECURSIVE Decimal(_)
\* Display of an unsigned integer.
Decimal(n) ==
    IF n < 10 THEN <<Digit(n)>> ELSE Decimal(n \div 10) \o <<Digit(n % 10)>>

\* StatusCode::canonical_reason
canonical_reason(status) ==
    CASE status = 404 -> "Not Found"
      [] status = 429 -> "Too Many Requests"
      [] status = 500 -> "Internal Server Error"
      [] status = 503 -> "Service Unavailable"
      [] OTHER -> "<unknown status code>"

\* anyhow!("HTTP {}", status): the status displays as its number and its reason.
HttpError(status) == <<"HTTP ">> \o Decimal(status) \o <<" ", canonical_reason(status)>>

\* Display of the reqwest error of a failed send: it names the URL.
TransportError(url) == <<"error sending request for url (">> \o url \o <<")">>

\* Display of the reqwest error of response.json().
DecodeError == <<"error decoding response body">>

MaxRetriesError == <<"Max retries exceeded">>

\* Result<Option<String>>
OkSome(id) == [kind |-> "some", id |-> id, err |-> <<>>]
OkNone == [kind |-> "none", id |-> Null, err |-> <<>>]
Err(msg) == [kind |-> "err", id |-> Null, err |-> msg]
Pending == [kind |-> "pending", id |-> Null, err |-> <<>>]

\* An extraction that takes the first candidate, flagged or not.
extract_FirstCandidate(items) ==
    IF items = <<>> \/ items[1].organization = Null
    THEN OkNone
    ELSE OkSome(items[1].organization)

\* RorClient::extract_chosen_ror_id: the first item with chosen == Some(true), and
\* then its organization's id if it has one.
extract_chosen_ror_id(items) ==
    LET flagged == {i \in 1..Len(items) : items[i].chosen = "true"} IN
    IF flagged = {} THEN OkNone
    ELSE LET first == CHOOSE i \in flagged : \A j \in flagged : i <= j IN
         IF items[first].organization = Null THEN OkNone
         ELSE OkSome(items[first].organization)

IsDigit(c) == c \in {"0", "1", "2", "3", "4", "5", "6", "7", "8", "9"}

DigitValue(c) == CHOOSE d \in 0..9 : Digit(d) = c

RECURSIVE ParseDigits(_, _)
ParseDigits(s, acc) ==
    IF s = <<>> THEN acc ELSE ParseDigits(Tail(s), acc * 10 + DigitValue(Head(s)))

\* str::parse::<u64>().ok(): a number when the text is digits only.
parse_u64(s) ==
    IF s # <<>> /\ \A i \in 1..Len(s) : IsDigit(s[i])
    THEN [ok |-> TRUE, value |-> ParseDigits(s, 0)]
    ELSE [ok |-> FALSE, value |-> 0]

RECURSIVE pow(_, _)
pow(b, e) == IF e = 0 THEN 1 ELSE b * pow(b, e - 1)

\* A wait that ignores the Retry-After header.
retry_wait_BackoffOnly(resp, attempt) == pow(2, attempt)

\* The wait after a 429: Retry-After when it parses, else 2^attempt.
retry_wait(resp, attempt) ==
    IF resp.retry_after.present /\ parse_u64(resp.retry_after.value).ok
    THEN parse_u64(resp.retry_after.value).value
    ELSE pow(2, attempt)

is_success(status) == status \in 200..299

Ret(res) == [k |-> "ret", res |-> res, wait |-> 0]
Sleep(wait) == [k |-> "sleep", res |-> Pending, wait |-> wait]

\* A loop that gives up on the first failed send.
make_request_attempt_NoRetry(url, attempt, resp) ==
    IF resp.t = "http"
    THEN IF is_success(resp.status)
         THEN IF resp.decodable
              THEN Ret(extract_chosen_ror_id(resp.items))
              ELSE Ret(Err(DecodeError))
         ELSE IF resp.status >= 500
         THEN Ret(Err(HttpError(resp.status)))
         ELSE IF resp.status = 429
         THEN Sleep(retry_wait(resp, attempt))
         ELSE Ret(Err(HttpError(resp.status)))
    ELSE Ret(Err(TransportError(url)))

\* A loop that waits on the first 429 only and returns the second as an error.
make_request_attempt_One429(url, attempt, resp) ==
    IF resp.t = "http"
    THEN IF is_success(resp.status)
         THEN IF resp.decodable
              THEN Ret(extract_chosen_ror_id(resp.items))
              ELSE Ret(Err(DecodeError))
         ELSE IF resp.status >= 500
         THEN Ret(Err(HttpError(resp.status)))
         ELSE IF resp.status = 429 /\ attempt = 0
         THEN Sleep(retry_wait(resp, attempt))
         ELSE Ret(Err(HttpError(resp.status)))
    ELSE IF attempt < max_retries - 1
         THEN Sleep(pow(2, attempt))
         ELSE Ret(Err(TransportError(url)))

\* A loop that backs off and sends again on a server error.
make_request_attempt_Retry5xx(url, attempt, resp) ==
    IF resp.t = "http"
    THEN IF is_success(resp.status)
         THEN IF resp.decodable
              THEN Ret(extract_chosen_ror_id(resp.items))
              ELSE Ret(Err(DecodeError))
         ELSE IF resp.status >= 500 /\ attempt < max_retries - 1
         THEN Sleep(pow(2, attempt))
         ELSE IF resp.status >= 500
         THEN Ret(Err(HttpError(resp.status)))
         ELSE IF resp.status = 429
         THEN Sleep(retry_wait(resp, attempt))
         ELSE Ret(Err(HttpError(resp.status)))
    ELSE IF attempt < max_retries - 1
         THEN Sleep(pow(2, attempt))
         ELSE Ret(Err(TransportError(url)))

\* A loop that treats 429 like any other error status.
make_request_attempt_No429(url, attempt, resp) ==
    IF resp.t = "http"
    THEN IF is_success(resp.status)
         THEN IF resp.decodable
              THEN Ret(extract_chosen_ror_id(resp.items))
              ELSE Ret(Err(DecodeError))
         ELSE Ret(Err(HttpError(resp.status)))
    ELSE IF attempt < max_retries - 1
         THEN Sleep(pow(2, attempt))
         ELSE Ret(Err(TransportError(url)))

\* One iteration of the loop of make_request on the answer to attempt `attempt`:
\* either make_request returns (Ret) or it sleeps and continues (Sleep).
make_request_attempt(url, attempt, resp) ==
    IF resp.t = "http"
    THEN IF is_success(resp.status)
         THEN IF resp.decodable
              THEN Ret(extract_chosen_ror_id(resp.items))
              ELSE Ret(Err(DecodeError))
         ELSE IF resp.status >= 500
         THEN Ret(Err(HttpError(resp.status)))
         ELSE IF resp.status = 429
         THEN Sleep(retry_wait(resp, attempt))
         ELSE Ret(Err(HttpError(resp.status)))
    ELSE IF attempt < max_retries - 1
         THEN Sleep(pow(2, attempt))
         ELSE Ret(Err(TransportError(url)))

Return(res) == [k |-> "return", res |-> res, phase |-> 0]
Request(phase) == [k |-> "request", res |-> Pending, phase |-> phase]

\* A call that goes on to the broad search whatever the flag says.
phase3_or_none_Always(fallback) == Request(3)

\* Lines 95-117: the broad fallback, or Ok(None) without it.
phase3_or_none(fallback) == IF fallback THEN Request(3) ELSE Return(OkNone)

\* A call whose quoted broad request is its last, whatever it gave.
after_request_NoUnquotedBroad(phase, r, fallback) ==
    CASE phase = 1 ->
            IF r.kind = "some" THEN Return(r)
            ELSE IF r.kind = "none" THEN phase3_or_none(fallback)
            ELSE IF Contains(r.err, <<"5", "0", "0">>) THEN Request(2)
            ELSE IF ~fallback THEN Return(r)
            ELSE phase3_or_none(fallback)
      [] phase = 2 ->
            IF r.kind = "some" THEN Return(r)
            ELSE IF r.kind = "none" THEN phase3_or_none(fallback)
            ELSE IF ~fallback THEN Return(r)
            ELSE phase3_or_none(fallback)
      [] OTHER -> Return(r)

\* A call that returns the error of the unquoted single-search request even with
\* the broad fallback.
after_request_Phase2ErrorFinal(phase, r, fallback) ==
    CASE phase = 1 ->
            IF r.kind = "some" THEN Return(r)
            ELSE IF r.kind = "none" THEN phase3_or_none(fallback)
            ELSE IF Contains(r.err, <<"5", "0", "0">>) THEN Request(2)
            ELSE IF ~fallback THEN Return(r)
            ELSE phase3_or_none(fallback)
      [] phase = 2 ->
            IF r.kind = "some" THEN Return(r)
            ELSE IF r.kind = "none" THEN phase3_or_none(fallback)
            ELSE Return(r)
      [] phase = 3 ->
            IF r.kind = "err" THEN Request(4) ELSE Return(r)
      [] OTHER -> Return(r)

\* A call without the unquoted retry: an error of phase 1 is final or goes to phase 3.
after_request_NoPhase2(phase, r, fallback) ==
    CASE phase \in {1, 2} ->
            IF r.kind = "some" THEN Return(r)
            ELSE IF r.kind = "none" THEN phase3_or_none(fallback)
            ELSE IF ~fallback THEN Return(r)
            ELSE phase3_or_none(fallback)
      [] phase = 3 ->
            IF r.kind = "err" THEN Request(4) ELSE Return(r)
      [] OTHER -> Return(r)

\* query_affiliation after the logical request of `phase` gave r: return, or issue
\* the request of another phase.
after_request(phase, r, fallback) ==
    CASE phase = 1 ->
            IF r.kind = "some" THEN Return(r)
            ELSE IF r.kind = "none" THEN phase3_or_none(fallback)
            ELSE IF Contains(r.err, <<"5", "0", "0">>) THEN Request(2)
            ELSE IF ~fallback THEN Return(r)
            ELSE phase3_or_none(fallback)
      [] phase = 2 ->
            IF r.kind = "some" THEN Return(r)
            ELSE IF r.kind = "none" THEN phase3_or_none(fallback)
            ELSE IF ~fallback THEN Return(r)
            ELSE phase3_or_none(fallback)
      [] phase = 3 ->
            IF r.kind = "err" THEN Request(4) ELSE Return(r)
      [] OTHER -> Return(r)

\* A call that has been made and waits for its permit.
Spawned ==
    [pc |-> "spawned", permit |-> FALSE, phase |-> 0, attempt |-> 0, wait |-> 0,
     res |-> Pending]

\* The call after its logical request of this phase gave r.
Continue(u, r) ==
    LET n == after_request(units[u].phase, r, fallback_multi) IN
    IF n.k = "request"
    THEN [units[u] EXCEPT !.pc = "req", !.phase = n.phase, !.attempt = 0, !.wait = 0]
    ELSE [pc |-> "returned", permit |-> FALSE, phase |-> 0, attempt |-> 0, wait |-> 0,
          res |-> n.res]

\* History: what the claims need of a response: its status, its Retry-After header,
\* the number of candidates, how many are flagged chosen and the ids of the flagged
\* ones.
Summary(resp) ==
    [t |-> resp.t, status |-> resp.status, decodable |-> resp.decodable,
     retry_after |-> resp.retry_after,
     candidates |-> Len(resp.items),
     nflagged |-> Cardinality({j \in 1..Len(resp.items) : resp.items[j].chosen = "true"}),
     flagged |-> {resp.items[i].organization :
                    i \in {j \in 1..Len(resp.items) :
                             resp.items[j].chosen = "true"
                             /\ resp.items[j].organization # Null}}]

NoSummary ==
    [t |-> "none", status |-> 0, decodable |-> FALSE, retry_after |-> NoHeader,
     candidates |-> 0, nflagged |-> 0, flagged |-> {}]

\* History: no send yet. total counts every send of the call, cur the sends of the
\* logical request that is open (or was the last), n429 the 429 answers to it.
NoSends == [total |-> 0, cur |-> 0, n429 |-> 0]

\* History after the call moved from `old` to `nxt`: r is the result of the logical
\* request that was open (Pending while it stays open), is429 whether a 429 came.
LogAfter(u, old, nxt, r) ==
    LET l == log[u]
        n == Len(l)
        closed == IF n = 0 THEN l ELSE [l EXCEPT ![n].result = r]
    IN IF nxt.pc = "req" /\ (old.pc = "spawned" \/ nxt.phase # old.phase)
       THEN Append(closed, [url |-> url_of(nxt.phase, u), result |-> Pending])
       ELSE closed

SentAfter(u, old, nxt, is429) ==
    LET c == [sent[u] EXCEPT !.n429 = @ + (IF is429 THEN 1 ELSE 0)] IN
    IF nxt.pc = "req" /\ (old.pc = "spawned" \/ nxt.phase # old.phase)
    THEN [total |-> c.total + 1, cur |-> 1, n429 |-> 0]
    ELSE IF nxt.pc = "req"
    THEN [c EXCEPT !.total = @ + 1, !.cur = @ + 1]
    ELSE c

\* The history variables after a step of call u.
Trace(u, nxt, r, resp, is_response) ==
    /\ log' = IF traced THEN [log EXCEPT ![u] = LogAfter(u, units[u], nxt, r)] ELSE log
    /\ sent' = IF traced
               THEN [sent EXCEPT ![u] = SentAfter(u, units[u], nxt,
                                                  is_response /\ resp.t = "http"
                                                  /\ resp.status = 429)]
               ELSE sent
    /\ lastResp' = IF traced /\ is_response
                   THEN [lastResp EXCEPT ![u] = Summary(resp)]
                   ELSE lastResp

\* History: the answers so far after one more: all 200 with an empty candidate list,
\* or not.
AnswersAfter(old, resp) ==
    IF resp.t = "http" /\ resp.status = 200 /\ resp.decodable /\ resp.items = <<>>
       /\ old \in {"nothing", "all_empty"}
    THEN "all_empty"
    ELSE "other"

\* A permit that only comes back when the call returns Ok.
release_OnOk(available, call) ==
    IF call.pc = "returned" /\ call.res.kind # "err" THEN available + 1 ELSE available

\* _permit is dropped when query_affiliation returns, on whichever path.
release(available, call) ==
    IF call.pc = "returned" THEN available + 1 ELSE available

\* reconcile::run has not been called.
NoReconcile == [pc |-> "none"]

\* The extract stage has not been called.
NoExtract == [pc |-> "none"]

\* Groups of variables.
settings == <<concurrency, fallback_multi, traced>>
stages == <<hashes, reconcile, extract>>
ckhist == <<ckLast, ckSaved>>
sinks == <<matchesFile, failedFile, matches_writer, failed_writer>>
runstate == <<run, runs, resume, atStart>>
vars == <<checkpoint, cpFile, matchesFile, failedFile, matches_writer, failed_writer, locks,
          run, runs, faults, resume, concurrency, fallback_multi, permits, units, traced,
          log, sent, lastResp, answers, queried, atStart, ckLast, ckSaved, hashes,
          reconcile, extract>>

\* An acquire that does not wait for a permit.
Acquire_NoWait(u) ==
    /\ units[u].pc = "spawned"
    /\ permits' = permits - 1
    /\ LET nxt == [units[u] EXCEPT !.pc = "req", !.permit = TRUE, !.phase = 1]
       IN /\ units' = [units EXCEPT ![u] = nxt]
          /\ Trace(u, nxt, Pending, NoSummary, FALSE)
    /\ queried' = queried \cup {u}
    /\ UNCHANGED answers
    /\ UNCHANGED <<stages, settings, checkpoint, cpFile, sinks, locks, runstate, faults, ckhist>>

\* let _permit = self.semaphore.acquire().await?; then the phase 1 request is sent.
Acquire(u) ==
    /\ units[u].pc = "spawned"
    /\ permits > 0
    /\ permits' = permits - 1
    /\ LET nxt == [units[u] EXCEPT !.pc = "req", !.permit = TRUE, !.phase = 1]
       IN /\ units' = [units EXCEPT ![u] = nxt]
          /\ Trace(u, nxt, Pending, NoSummary, FALSE)
    /\ queried' = queried \cup {u}
    /\ UNCHANGED answers
    /\ UNCHANGED <<stages, settings, checkpoint, cpFile, sinks, locks, runstate, faults, ckhist>>

\* The answer to the request in flight arrives: make_request sleeps, or returns and
\* query_affiliation issues the next phase's request or returns, dropping _permit.
Respond(u, resp) ==
    /\ units[u].pc = "req"
    /\ LET a == make_request_attempt(url_of(units[u].phase, u), units[u].attempt, resp)
           nxt == IF a.k = "sleep"
                  THEN [units[u] EXCEPT !.pc = "sleep", !.wait = a.wait]
                  ELSE Continue(u, a.res)
       IN /\ units' = [units EXCEPT ![u] = nxt]
          /\ permits' = release(permits, nxt)
          /\ Trace(u, nxt, a.res, resp, TRUE)
    /\ answers' = [answers EXCEPT ![u] = AnswersAfter(@, resp)]
    /\ UNCHANGED <<stages, settings, checkpoint, cpFile, sinks, locks, runstate, faults, ckhist,
                   queried>>

\* A loop that allows one attempt more than max_retries.
Wake_OneMore(u) ==
    /\ units[u].pc = "sleep"
    /\ LET again == units[u].attempt + 1 < max_retries + 1
           nxt == IF again
                  THEN [units[u] EXCEPT !.pc = "req", !.attempt = @ + 1, !.wait = 0]
                  ELSE Continue(u, Err(MaxRetriesError))
       IN /\ units' = [units EXCEPT ![u] = nxt]
          /\ permits' = release(permits, nxt)
          /\ Trace(u, nxt, IF again THEN Pending ELSE Err(MaxRetriesError), NoSummary, FALSE)
    /\ UNCHANGED answers
    /\ UNCHANGED <<stages, settings, checkpoint, cpFile, sinks, locks, runstate, faults, ckhist,
                   queried>>

\* The backoff sleep ends: the next attempt is sent, or the loop is over and
\* make_request returns "Max retries exceeded".
Wake(u) ==
    /\ units[u].pc = "sleep"
    /\ LET again == units[u].attempt + 1 < max_retries
           nxt == IF again
                  THEN [units[u] EXCEPT !.pc = "req", !.attempt = @ + 1, !.wait = 0]
                  ELSE Continue(u, Err(MaxRetriesError))
       IN /\ units' = [units EXCEPT ![u] = nxt]
          /\ permits' = release(permits, nxt)
          /\ Trace(u, nxt, IF again THEN Pending ELSE Err(MaxRetriesError), NoSummary, FALSE)
    /\ UNCHANGED answers
    /\ UNCHANGED <<stages, settings, checkpoint, cpFile, sinks, locks, runstate, faults, ckhist,
                   queried>>

------------------------------------------------------------------------------
(* run_async (src/src/query/mod.rs:76-261) *)

\* Largest number of units one run dispatches, and of runs of the program.
MaxUnits == 2
MaxRuns == 2
MaxFaults == 1
MaxConcurrency == 1

RorMatch(affiliation, hash, ror_id) ==
    [affiliation |-> affiliation, affiliation_hash |-> hash, ror_id |-> ror_id]

RorMatchFailed(affiliation, hash, error) ==
    [affiliation |-> affiliation, affiliation_hash |-> hash, error |-> error]

NoMatchError == <<"No match found">>

NoOne == <<>>
NoRun ==
    [input |-> {}, done |-> {}, matches |-> <<>>, failed |-> <<>>,
     files |-> [matches |-> NoFile, failed |-> NoFile, checkpoint |-> NoFile],
     interrupted |-> [done |-> {}, checkpoint |-> NoFile]]
Unlocked == [matches |-> NoOne, failed |-> NoOne, checkpoint |-> NoOne]

\* The sink a result goes to: Ok(Some) to the match sink, Ok(None) and Err to the
\* failure sink.
sink_of(res) == IF res.kind = "some" THEN "matches" ELSE "failed"

\* The record of a unit's result (lines 174-222).
record_of(u, res) ==
    CASE res.kind = "some" -> RorMatch(u, hash_affiliation(u), res.id)
      [] res.kind = "none" -> RorMatchFailed(u, hash_affiliation(u), NoMatchError)
      [] OTHER -> RorMatchFailed(u, hash_affiliation(u), res.err)

\* writeln! on a BufWriter. "buffered": the record fits the buffer; "spilled": the
\* buffer is written to the file first; "failed": that write fails, the call returns
\* Err and the record is in neither.
buf_write(buf, file, rec, outcome) ==
    CASE outcome = "buffered" -> [ok |-> TRUE, buf |-> Append(buf, rec), file |-> file]
      [] outcome = "spilled" ->
            [ok |-> TRUE, buf |-> <<rec>>, file |-> FileOf(file.data \o buf)]
      [] OTHER -> [ok |-> FALSE, buf |-> buf, file |-> file]

WriteOutcomes == {"buffered", "spilled", "failed"}

\* BufWriter::flush, and the flush BufWriter attempts when it is dropped.
buf_flush(buf, file, ok) ==
    IF ok THEN [ok |-> TRUE, buf |-> <<>>, file |-> FileOf(file.data \o buf)]
    ELSE [ok |-> FALSE, buf |-> buf, file |-> file]

\* A sink that is created or truncated even when resuming.
open_sink_Truncate(file, res) == FileOf(<<>>)

\* Opening a sink (lines 123-141): append when resuming and the file exists,
\* File::create otherwise.
open_sink(file, res) == IF res /\ file.exists THEN file ELSE FileOf(<<>>)

OpenFaults == {"none", "matches", "failed"}

\* In-memory state of a process that is not running.
NoProcess ==
    /\ checkpoint' = [live |-> FALSE, processed |-> {}]
    /\ units' = <<>>
    /\ locks' = Unlocked
    /\ matches_writer' = <<>>
    /\ failed_writer' = <<>>
    /\ answers' = <<>>

\* run_async up to the end of the spawn loop (lines 76-235).
StartRun ==
    \E affiliations \in SUBSET Affs, res \in BOOLEAN, load_ok \in BOOLEAN,
       open_fault \in OpenFaults :
        LET use_cp == res /\ cpFile.exists
            ld == load(cpFile, load_ok)
            cp == IF use_cp THEN ld.cp ELSE new
            to_process == {a \in affiliations : ~is_processed(cp, hash_affiliation(a))}
            total == Cardinality(to_process)
        IN
        /\ run \in {"idle", "ok", "err", "crashed"}
        /\ runs < MaxRuns
        /\ total <= MaxUnits
        /\ ~use_cp => load_ok
        /\ (use_cp /\ ~load_ok) \/ total = 0 => open_fault = "none"
        /\ faults' = faults + (IF load_ok /\ open_fault = "none" THEN 0 ELSE 1)
        /\ faults' <= MaxFaults
        /\ runs' = runs + 1
        /\ resume' = res
        /\ queried' = {}
        /\ atStart' = [input |-> affiliations, done |-> cp.processed,
                       matches |-> matchesFile.data, failed |-> failedFile.data,
                       files |-> [matches |-> matchesFile, failed |-> failedFile,
                                  checkpoint |-> cpFile],
                       interrupted |-> IF run = "crashed" THEN atStart.interrupted
                                       ELSE NoRun.interrupted]
        /\ permits' = concurrency
        /\ IF use_cp /\ ~ld.ok
           THEN /\ run' = "err"
                /\ NoProcess
                /\ UNCHANGED <<matchesFile, failedFile>>
           ELSE IF total = 0
           THEN /\ run' = "ok"
                /\ NoProcess
                /\ UNCHANGED <<matchesFile, failedFile>>
           ELSE IF open_fault = "matches"
           THEN /\ run' = "err"
                /\ NoProcess
                /\ UNCHANGED <<matchesFile, failedFile>>
           ELSE IF open_fault = "failed"
           THEN /\ run' = "err"
                /\ NoProcess
                /\ matchesFile' = open_sink(matchesFile, res)
                /\ UNCHANGED failedFile
           ELSE /\ run' = "running"
                /\ checkpoint' = cp
                /\ matchesFile' = open_sink(matchesFile, res)
                /\ failedFile' = open_sink(failedFile, res)
                /\ matches_writer' = <<>>
                /\ failed_writer' = <<>>
                /\ locks' = Unlocked
                /\ units' = [u \in to_process |-> Spawned]
                /\ answers' = [u \in to_process |-> "nothing"]
        /\ UNCHANGED <<stages, settings, cpFile, log, sent, lastResp, ckhist>>

\* A unit that writes to its sink without waiting for the lock.
LockSink_NoWait(u) ==
    /\ units[u].pc = "returned"
    /\ locks' = [locks EXCEPT ![sink_of(units[u].res)] = u]
    /\ units' = [units EXCEPT ![u].pc = "write"]
    /\ UNCHANGED <<stages, settings, checkpoint, cpFile, sinks, runstate, faults, ckhist,
                   queried, permits, log, sent, lastResp, answers>>

\* matches_writer.lock().await or failed_writer.lock().await (lines 181, 198, 214).
LockSink(u) ==
    /\ units[u].pc = "returned"
    /\ locks[sink_of(units[u].res)] = NoOne
    /\ locks' = [locks EXCEPT ![sink_of(units[u].res)] = u]
    /\ units' = [units EXCEPT ![u].pc = "write"]
    /\ UNCHANGED <<stages, settings, checkpoint, cpFile, sinks, runstate, faults, ckhist, queried,
                   permits, log, sent, lastResp, answers>>

\* A write whose lock guard outlives the match arm: the sink stays locked.
WriteRecord_KeepsLock(u, outcome) ==
    /\ units[u].pc = "write"
    /\ faults' = faults + (IF outcome = "failed" THEN 1 ELSE 0)
    /\ faults' <= MaxFaults
    /\ LET rec == record_of(u, units[u].res) IN
       IF sink_of(units[u].res) = "matches"
       THEN LET w == buf_write(matches_writer, matchesFile, rec, outcome) IN
            /\ matches_writer' = w.buf
            /\ matchesFile' = w.file
            /\ UNCHANGED <<failed_writer, failedFile>>
       ELSE LET w == buf_write(failed_writer, failedFile, rec, outcome) IN
            /\ failed_writer' = w.buf
            /\ failedFile' = w.file
            /\ UNCHANGED <<matches_writer, matchesFile>>
    /\ units' = [units EXCEPT ![u].pc = "cplock"]
    /\ UNCHANGED <<stages, settings, checkpoint, cpFile, runstate, ckhist, queried, permits,
                   log, sent, lastResp, answers, locks>>

\* writeln!(writer, ...) under the lock; an Err is logged and dropped; the guard is
\* released at the end of the match arm.
WriteRecord(u, outcome) ==
    /\ units[u].pc = "write"
    /\ faults' = faults + (IF outcome = "failed" THEN 1 ELSE 0)
    /\ faults' <= MaxFaults
    /\ LET rec == record_of(u, units[u].res) IN
       IF sink_of(units[u].res) = "matches"
       THEN LET w == buf_write(matches_writer, matchesFile, rec, outcome) IN
            /\ matches_writer' = w.buf
            /\ matchesFile' = w.file
            /\ UNCHANGED <<failed_writer, failedFile>>
       ELSE LET w == buf_write(failed_writer, failedFile, rec, outcome) IN
            /\ failed_writer' = w.buf
            /\ failedFile' = w.file
            /\ UNCHANGED <<matches_writer, matchesFile>>
    /\ locks' = [locks EXCEPT ![sink_of(units[u].res)] = NoOne]
    /\ units' = [units EXCEPT ![u].pc = "cplock"]
    /\ UNCHANGED <<stages, settings, checkpoint, cpFile, runstate, ckhist, queried, permits,
                   log, sent, lastResp, answers>>

\* checkpoint.lock().await (line 227).
LockCheckpoint(u) ==
    /\ units[u].pc = "cplock"
    /\ locks.checkpoint = NoOne
    /\ locks' = [locks EXCEPT !.checkpoint = u]
    /\ units' = [units EXCEPT ![u].pc = "mark"]
    /\ UNCHANGED <<stages, settings, checkpoint, cpFile, sinks, runstate, faults, ckhist, queried,
                   permits, log, sent, lastResp, answers>>

\* cp.mark_processed(&hash), the guard is released, pb.inc(1), the task ends and its
\* locals are gone.
Mark(u) ==
    /\ units[u].pc = "mark"
    /\ checkpoint' = mark_processed(checkpoint, hash_affiliation(u))
    /\ locks' = [locks EXCEPT !.checkpoint = NoOne]
    /\ units' = [units EXCEPT ![u].pc = "done", ![u].res = Pending]
    /\ answers' = [answers EXCEPT ![u] = "nothing"]
    /\ UNCHANGED <<stages, settings, cpFile, sinks, runstate, faults, ckhist, queried, permits,
                   log, sent, lastResp>>

\* run_async returns: the process is over. The writers are dropped, and a BufWriter
\* that still holds records tries once more to write them (dm, df: whether it can).
Exit(mbuf, mfile, fbuf, ffile, dm, df) ==
    /\ matchesFile' = buf_flush(mbuf, mfile, dm).file
    /\ failedFile' = buf_flush(fbuf, ffile, df).file
    /\ NoProcess

\* A JoinError that makes run_async return Err, as `handle.await?` would.
Abort_Fatal(u) ==
    /\ units[u].pc \notin {"done", "aborted"}
    /\ Cardinality({v \in DOMAIN units : units[v].pc = "aborted"}) + faults < MaxFaults
    /\ run' = "err"
    /\ permits' = concurrency
    /\ Exit(matches_writer, matchesFile, failed_writer, failedFile, TRUE, TRUE)
    /\ UNCHANGED <<stages, settings, cpFile, runs, resume, atStart, faults, ckhist,
                   queried, log, sent, lastResp>>

\* The task of unit u panics or is cancelled: its handle gives a JoinError (lines
\* 237-241). The locals of the task are dropped: the permit and the lock guards it
\* held are released; nothing else of the unit happens.
Abort(u) ==
    /\ units[u].pc \notin {"done", "aborted"}
    /\ Cardinality({v \in DOMAIN units : units[v].pc = "aborted"}) + faults < MaxFaults
    /\ units' = [units EXCEPT ![u].pc = "aborted", ![u].permit = FALSE, ![u].res = Pending]
    /\ permits' = IF units[u].permit THEN permits + 1 ELSE permits
    /\ locks' = [l \in DOMAIN locks |-> IF locks[l] = u THEN NoOne ELSE locks[l]]
    /\ answers' = [answers EXCEPT ![u] = "nothing"]
    /\ UNCHANGED <<stages, settings, checkpoint, cpFile, sinks, runstate, faults, ckhist,
                   queried, log, sent, lastResp>>

\* A kill that comes after the checkpoint has been written to its file.
Crash_Saved ==
    /\ run \in {"running", "flushed_matches", "flushed_failed"}
    /\ run' = "crashed"
    /\ cpFile' = FileOf(SaveData(CHOOSE o \in Orders(checkpoint.processed) : TRUE))
    /\ atStart' = [atStart EXCEPT !.interrupted =
                      [done |-> {u \in DOMAIN units : units[u].pc = "done"},
                       checkpoint |-> atStart.files.checkpoint]]
    /\ NoProcess
    /\ UNCHANGED <<stages, settings, matchesFile, failedFile, runs, resume, faults, ckhist,
                   queried, permits, log, sent, lastResp>>

\* The process is killed while run_async is running: what the BufWriters hold is
\* lost with the memory of the process, the files stay as they are. History: the
\* units that had completed, and the checkpoint file the killed run had started with.
Crash ==
    /\ run \in {"running", "flushed_matches", "flushed_failed"}
    /\ run' = "crashed"
    /\ atStart' = [atStart EXCEPT !.interrupted =
                      [done |-> {u \in DOMAIN units : units[u].pc = "done"},
                       checkpoint |-> atStart.files.checkpoint]]
    /\ NoProcess
    /\ UNCHANGED <<stages, settings, cpFile, matchesFile, failedFile, runs, resume, faults,
                   ckhist, queried, permits, log, sent, lastResp>>

\* A flush of the match sink that does not wait for the handles.
FlushMatches_Early ==
    \E ok \in BOOLEAN, dm \in BOOLEAN, df \in BOOLEAN :
        LET f == buf_flush(matches_writer, matchesFile, ok) IN
        /\ run = "running"
        /\ ok => (dm /\ df)
        /\ faults' = faults + (IF ok THEN 0 ELSE 1)
        /\ faults' <= MaxFaults
        /\ IF ok
           THEN /\ run' = "flushed_matches"
                /\ matches_writer' = f.buf
                /\ matchesFile' = f.file
                /\ UNCHANGED <<failed_writer, failedFile, checkpoint, units, locks, answers>>
           ELSE /\ run' = "err"
                /\ Exit(matches_writer, matchesFile, failed_writer, failedFile, dm, df)
        /\ UNCHANGED <<stages, settings, cpFile, runs, resume, atStart, ckhist, queried, permits,
                       log, sent, lastResp>>

\* Every handle has been awaited; writer.flush() of the match sink (lines 237-248).
FlushMatches ==
    \E ok \in BOOLEAN, dm \in BOOLEAN, df \in BOOLEAN :
        LET f == buf_flush(matches_writer, matchesFile, ok) IN
        /\ run = "running"
        /\ \A u \in DOMAIN units : units[u].pc \in {"done", "aborted"}
        /\ ok => (dm /\ df)
        /\ faults' = faults + (IF ok THEN 0 ELSE 1)
        /\ faults' <= MaxFaults
        /\ IF ok
           THEN /\ run' = "flushed_matches"
                /\ matches_writer' = f.buf
                /\ matchesFile' = f.file
                /\ UNCHANGED <<failed_writer, failedFile, checkpoint, units, locks, answers>>
           ELSE /\ run' = "err"
                /\ Exit(matches_writer, matchesFile, failed_writer, failedFile, dm, df)
        /\ UNCHANGED <<stages, settings, cpFile, runs, resume, atStart, ckhist, queried, permits,
                       log, sent, lastResp>>

\* A failed flush of the failure sink that is logged, after which the checkpoint is
\* saved all the same.
FlushFailed_ThenSave ==
    \E ok \in BOOLEAN, df \in BOOLEAN :
        LET f == buf_flush(failed_writer, failedFile, ok) IN
        /\ run = "flushed_matches"
        /\ ok => df
        /\ faults' = faults + (IF ok THEN 0 ELSE 1)
        /\ faults' <= MaxFaults
        /\ IF ok
           THEN /\ run' = "flushed_failed"
                /\ failed_writer' = f.buf
                /\ failedFile' = f.file
                /\ UNCHANGED <<matches_writer, matchesFile, checkpoint, units, locks, answers,
                               cpFile>>
           ELSE /\ run' = "err"
                /\ cpFile' = save(checkpoint, cpFile,
                                  CHOOSE o \in Orders(checkpoint.processed) : TRUE, "none").file
                /\ Exit(matches_writer, matchesFile, failed_writer, failedFile, TRUE, df)
        /\ UNCHANGED <<stages, settings, runs, resume, atStart, ckhist, queried, permits,
                       log, sent, lastResp>>

\* writer.flush() of the failure sink (lines 249-252).
FlushFailed ==
    \E ok \in BOOLEAN, df \in BOOLEAN :
        LET f == buf_flush(failed_writer, failedFile, ok) IN
        /\ run = "flushed_matches"
        /\ ok => df
        /\ faults' = faults + (IF ok THEN 0 ELSE 1)
        /\ faults' <= MaxFaults
        /\ IF ok
           THEN /\ run' = "flushed_failed"
                /\ failed_writer' = f.buf
                /\ failedFile' = f.file
                /\ UNCHANGED <<matches_writer, matchesFile, checkpoint, units, locks, answers>>
           ELSE /\ run' = "err"
                /\ Exit(matches_writer, matchesFile, failed_writer, failedFile, TRUE, df)
        /\ UNCHANGED <<stages, settings, cpFile, runs, resume, atStart, ckhist, queried, permits,
                       log, sent, lastResp>>

\* cp.save() (lines 253-256), then Ok(()).
Save ==
    \E order \in Orders(checkpoint.processed), fault \in SaveFaults :
        LET r == save(checkpoint, cpFile, order, fault) IN
        /\ run = "flushed_failed"
        /\ faults' = faults + (IF fault = "none" THEN 0 ELSE 1)
        /\ faults' <= MaxFaults
        /\ cpFile' = r.file
        /\ run' = IF r.ok THEN "ok" ELSE "err"
        /\ Exit(matches_writer, matchesFile, failed_writer, failedFile, TRUE, TRUE)
        /\ UNCHANGED <<stages, settings, runs, resume, atStart, ckhist, queried, permits,
                       log, sent, lastResp>>

\* The answers of the registry in the runs of the orchestrator: a chosen candidate,
\* no candidate, or no answer at all (a transport error).
RunResponses ==
    {HttpResponse(200, TRUE, <<[chosen |-> "true", organization |-> "https://ror.org/abc123"]>>,
                  NoHeader),
     HttpResponse(200, TRUE, <<>>, NoHeader),
     [t |-> "transport", status |-> 0, decodable |-> FALSE, items |-> <<>>,
      retry_after |-> NoHeader]}

NoOp == [op |-> "none", ok |-> TRUE, existed |-> FALSE]

\* A fresh output directory and no process.
Init ==
    /\ checkpoint = [live |-> FALSE, processed |-> {}]
    /\ cpFile = NoFile
    /\ matchesFile = NoFile
    /\ failedFile = NoFile
    /\ matches_writer = <<>>
    /\ failed_writer = <<>>
    /\ locks = Unlocked
    /\ run = "idle"
    /\ runs = 0
    /\ faults = 0
    /\ resume = FALSE
    /\ concurrency \in 1..MaxConcurrency
    /\ fallback_multi = FALSE
    /\ permits = concurrency
    /\ units = <<>>
    /\ traced = FALSE
    /\ log = <<>>
    /\ sent = <<>>
    /\ lastResp = <<>>
    /\ answers = <<>>
    /\ queried = {}
    /\ atStart = NoRun
    /\ ckLast = NoOp
    /\ ckSaved = [valid |-> FALSE, set |-> {}]
    /\ hashes = <<>>
    /\ reconcile = NoReconcile
    /\ extract = NoExtract

Next ==
    \/ StartRun
    \/ \E u \in DOMAIN units : Acquire(u)
    \/ \E u \in DOMAIN units, resp \in RunResponses : Respond(u, resp)
    \/ \E u \in DOMAIN units : Wake(u)
    \/ \E u \in DOMAIN units : LockSink(u)
    \/ \E u \in DOMAIN units, outcome \in WriteOutcomes : WriteRecord(u, outcome)
    \/ \E u \in DOMAIN units : LockCheckpoint(u)
    \/ \E u \in DOMAIN units : Mark(u)
    \/ FlushMatches
    \/ FlushFailed
    \/ Save

Spec == Init /\ [][Next]_vars

------------------------------------------------------------------------------
(* One run over an output directory that earlier runs may have left, with tasks *)
(* that may fail to join *)

\* What the run finds on disk: nothing; the output of a completed run over "MIT"
\* (matched) and "Oxford" (no match); the output of a run over "MIT" that was
\* killed before its save.
PriorOutputs ==
    LET a == RorMatch(AffA, hash_affiliation(AffA), "https://ror.org/abc123")
        b == RorMatchFailed(AffB, hash_affiliation(AffB), NoMatchError)
    IN {[matches |-> NoFile, failed |-> NoFile, checkpoint |-> NoFile],
        [matches |-> FileOf(<<a>>), failed |-> FileOf(<<b>>),
         checkpoint |-> FileOf(SaveData(<<hash_affiliation(AffA), hash_affiliation(AffB)>>))],
        [matches |-> FileOf(<<a>>), failed |-> FileOf(<<>>), checkpoint |-> NoFile]}

\* The answers of the registry in these runs: a chosen candidate, no candidate, or
\* a client error.
BatchResponses ==
    {HttpResponse(200, TRUE, <<[chosen |-> "true", organization |-> "https://ror.org/abc123"]>>,
                  NoHeader),
     HttpResponse(200, TRUE, <<>>, NoHeader),
     HttpResponse(404, FALSE, <<>>, NoHeader)}

BatchInit ==
    /\ \E prior \in PriorOutputs :
          /\ cpFile = prior.checkpoint
          /\ matchesFile = prior.matches
          /\ failedFile = prior.failed
    /\ checkpoint = [live |-> FALSE, processed |-> {}]
    /\ matches_writer = <<>>
    /\ failed_writer = <<>>
    /\ locks = Unlocked
    /\ run = "idle"
    /\ runs = 0
    /\ faults = 0
    /\ resume = FALSE
    /\ concurrency \in 1..MaxConcurrency
    /\ fallback_multi = FALSE
    /\ permits = concurrency
    /\ units = <<>>
    /\ traced = FALSE
    /\ log = <<>>
    /\ sent = <<>>
    /\ lastResp = <<>>
    /\ answers = <<>>
    /\ queried = {}
    /\ atStart = NoRun
    /\ ckLast = NoOp
    /\ ckSaved = [valid |-> FALSE, set |-> {}]
    /\ hashes = <<>>
    /\ reconcile = NoReconcile
    /\ extract = NoExtract

\* The inputs the current run dispatched: those the checkpoint it started with did
\* not hold (lines 96-103).
dispatched == {a \in atStart.input : hash_affiliation(a) \notin atStart.done}

\* What each sink holds or will hold once its BufWriter is flushed, and the part of
\* it that the current run wrote.
allMatches == matchesFile.data \o matches_writer
allFailed == failedFile.data \o failed_writer
newMatches ==
    IF resume THEN SubSeq(allMatches, Len(atStart.matches) + 1, Len(allMatches))
    ELSE allMatches
newFailed ==
    IF resume THEN SubSeq(allFailed, Len(atStart.failed) + 1, Len(allFailed))
    ELSE allFailed

\* The number of records of the current run for affiliation a, in both sinks.
records_for(a) ==
    Cardinality({i \in 1..Len(newMatches) : newMatches[i].affiliation = a})
        + Cardinality({i \in 1..Len(newFailed) : newFailed[i].affiliation = a})

\* The steps of the run, StartRun apart.
RunSteps ==
    \/ \E u \in DOMAIN units : Acquire(u)
    \/ \E u \in DOMAIN units, resp \in BatchResponses : Respond(u, resp)
    \/ \E u \in DOMAIN units : LockSink(u)
    \/ \E u \in DOMAIN units, outcome \in WriteOutcomes : WriteRecord(u, outcome)
    \/ \E u \in DOMAIN units : LockCheckpoint(u)
    \/ \E u \in DOMAIN units : Mark(u)
    \/ \E u \in DOMAIN units : Abort(u)
    \/ FlushMatches
    \/ FlushFailed
    \/ Save

BatchNext ==
    \/ run = "idle" /\ StartRun
    \/ RunSteps

SpecBatch == BatchInit /\ [][BatchNext]_vars

------------------------------------------------------------------------------
(* A run that may be killed, and the runs that follow a killed one on what it *)
(* left on disk *)

CrashNext ==
    \/ run \in {"idle", "crashed"} /\ StartRun
    \/ RunSteps
    \/ Crash

SpecCrash == Init /\ [][CrashNext]_vars

------------------------------------------------------------------------------
(* One run under a fair scheduler and a registry that answers every request *)

\* The answers of the registry in this run: a chosen candidate, or a rate limit,
\* which makes the call sleep and, the third time, fail.
LiveResponses ==
    {HttpResponse(200, TRUE, <<[chosen |-> "true", organization |-> "https://ror.org/abc123"]>>,
                  NoHeader),
     HttpResponse(429, FALSE, <<>>, NoHeader)}

\* The writes of this run: into the buffer, or failing.
LiveWrites == {"buffered", "failed"}

\* The step of the task of unit u that comes next, whatever it is.
UnitStep(u) ==
    /\ u \in DOMAIN units
    /\ \/ Acquire(u)
       \/ \E resp \in LiveResponses : Respond(u, resp)
       \/ Wake(u)
       \/ LockSink(u)
       \/ \E outcome \in LiveWrites : WriteRecord(u, outcome)
       \/ LockCheckpoint(u)
       \/ Mark(u)

\* The steps of a run that has been started.
Progress ==
    \/ \E u \in Affs : UnitStep(u)
    \/ FlushMatches
    \/ FlushFailed
    \/ Save

LiveNext ==
    \/ run = "idle" /\ StartRun
    \/ Progress

\* tokio keeps polling the tasks that can make progress, the registry answers or
\* times out every request, every sleep ends, and run_async goes on once the handles
\* are in: as long as a step of the run is possible, one is taken.
Fairness == WF_vars(Progress)

SpecLive == Init /\ [][LiveNext]_vars /\ Fairness

------------------------------------------------------------------------------
(* One query_affiliation call against an arbitrary registry, with its history *)

ClientInit ==
    /\ checkpoint = [live |-> FALSE, processed |-> {}]
    /\ cpFile = NoFile
    /\ matchesFile = NoFile
    /\ failedFile = NoFile
    /\ matches_writer = <<>>
    /\ failed_writer = <<>>
    /\ locks = Unlocked
    /\ run = "idle"
    /\ runs = 0
    /\ faults = 0
    /\ resume = FALSE
    /\ concurrency = 1
    /\ fallback_multi \in BOOLEAN
    /\ permits = concurrency
    /\ \E a \in {AffA, AffC} : units = [u \in {a} |-> Spawned]
    /\ traced = TRUE
    /\ log = [u \in DOMAIN units |-> <<>>]
    /\ sent = [u \in DOMAIN units |-> NoSends]
    /\ lastResp = [u \in DOMAIN units |-> NoSummary]
    /\ answers = [u \in DOMAIN units |-> "nothing"]
    /\ queried = {}
    /\ atStart = NoRun
    /\ ckLast = NoOp
    /\ ckSaved = [valid |-> FALSE, set |-> {}]
    /\ hashes = <<>>
    /\ reconcile = NoReconcile
    /\ extract = NoExtract

ClientNext ==
    \/ \E u \in DOMAIN units : Acquire(u)
    \/ \E u \in DOMAIN units, resp \in Responses : Respond(u, resp)
    \/ \E u \in DOMAIN units : Wake(u)

SpecClient == ClientInit /\ [][ClientNext]_vars

------------------------------------------------------------------------------
(* Several calls of query_affiliation dispatched at once on one client *)

\* The answers of the registry to these calls: those of the runs, a server error
\* and a rate limit.
CallResponses ==
    RunResponses \cup {HttpResponse(500, FALSE, <<>>, NoHeader),
                       HttpResponse(429, FALSE, <<>>, NoHeader)}

\* MaxUnits calls are spawned on a client with fewer permits, or as many.
CallsInit ==
    /\ checkpoint = [live |-> FALSE, processed |-> {}]
    /\ cpFile = NoFile
    /\ matchesFile = NoFile
    /\ failedFile = NoFile
    /\ matches_writer = <<>>
    /\ failed_writer = <<>>
    /\ locks = Unlocked
    /\ run = "idle"
    /\ runs = 0
    /\ faults = 0
    /\ resume = FALSE
    /\ concurrency \in 1..MaxConcurrency
    /\ fallback_multi \in BOOLEAN
    /\ permits = concurrency
    /\ \E called \in SUBSET Affs :
          /\ Cardinality(called) = MaxUnits
          /\ units = [u \in called |-> Spawned]
    /\ traced = FALSE
    /\ log = <<>>
    /\ sent = <<>>
    /\ lastResp = <<>>
    /\ answers = [u \in DOMAIN units |-> "nothing"]
    /\ queried = {}
    /\ atStart = NoRun
    /\ ckLast = NoOp
    /\ ckSaved = [valid |-> FALSE, set |-> {}]
    /\ hashes = <<>>
    /\ reconcile = NoReconcile
    /\ extract = NoExtract

CallsNext ==
    \/ \E u \in DOMAIN units : Acquire(u)
    \/ \E u \in DOMAIN units, resp \in CallResponses : Respond(u, resp)
    \/ \E u \in DOMAIN units : Wake(u)

SpecCalls == CallsInit /\ [][CallsNext]_vars

------------------------------------------------------------------------------
(* The checkpoint store used on its own, as the unit tests use it *)

\* Contents the checkpoint file may have before the program touches it.
InitialFiles ==
    {NoFile,
     FileOf(<<>>),
     FileOf(<<NL, NL>>),
     FileOf(hash_affiliation(AffA) \o <<NL, NL>> \o hash_affiliation(AffB) \o <<CR, NL>>),
     FileOf(<<CR, NL>> \o hash_affiliation(AffC))}

\* Everything but the checkpoint, its file and their history.
others ==
    <<matchesFile, failedFile, matches_writer, failed_writer, locks, run, runs, faults, resume,
      concurrency, fallback_multi, permits, units, traced, log, sent, lastResp,
      answers, queried, atStart, hashes, reconcile, extract>>

CkInit ==
    /\ checkpoint = [live |-> FALSE, processed |-> {}]
    /\ cpFile \in InitialFiles
    /\ matchesFile = NoFile
    /\ failedFile = NoFile
    /\ matches_writer = <<>>
    /\ failed_writer = <<>>
    /\ locks = Unlocked
    /\ run = "idle"
    /\ runs = 0
    /\ faults = 0
    /\ resume = FALSE
    /\ concurrency = 1
    /\ fallback_multi = FALSE
    /\ permits = 1
    /\ units = <<>>
    /\ traced = FALSE
    /\ log = <<>>
    /\ sent = <<>>
    /\ lastResp = <<>>
    /\ answers = <<>>
    /\ queried = {}
    /\ atStart = NoRun
    /\ ckLast = NoOp
    /\ ckSaved = [valid |-> FALSE, set |-> {}]
    /\ hashes = <<>>
    /\ reconcile = NoReconcile
    /\ extract = NoExtract

CkNew ==
    /\ checkpoint' = new
    /\ ckLast' = [op |-> "new", ok |-> TRUE, existed |-> cpFile.exists]
    /\ UNCHANGED <<cpFile, ckSaved, others>>

CkLoad ==
    \E io_ok \in BOOLEAN :
        LET r == load(cpFile, io_ok) IN
        /\ checkpoint' = r.cp
        /\ ckLast' = [op |-> "load", ok |-> r.ok, existed |-> cpFile.exists]
        /\ UNCHANGED <<cpFile, ckSaved, others>>

CkMark ==
    \E h \in Fingerprints :
        /\ checkpoint.live
        /\ checkpoint' = mark_processed(checkpoint, h)
        /\ ckLast' = [op |-> "mark", ok |-> TRUE, existed |-> cpFile.exists]
        /\ UNCHANGED <<cpFile, ckSaved, others>>

CkSave ==
    \E order \in Orders(checkpoint.processed), fault \in SaveFaults :
        LET r == save(checkpoint, cpFile, order, fault) IN
        /\ checkpoint.live
        /\ cpFile' = r.file
        /\ ckLast' = [op |-> "save", ok |-> r.ok, existed |-> cpFile.exists]
        /\ ckSaved' = IF r.ok THEN [valid |-> TRUE, set |-> checkpoint.processed]
                      ELSE IF r.file = cpFile THEN ckSaved
                      ELSE [valid |-> FALSE, set |-> {}]
        /\ UNCHANGED <<checkpoint, others>>

CkNext == CkNew \/ CkLoad \/ CkMark \/ CkSave

SpecCheckpoint == CkInit /\ [][CkNext]_vars

------------------------------------------------------------------------------
(* hash_affiliation called on its own, as the unit tests call it *)

\* Largest number of calls of hash_affiliation in one behaviour.
MaxCalls == 3

\* The inputs of the calls: plain strings, the empty string, a non-ASCII string.
HashInputs == Affs \cup {AffEmpty, AffAccent}

\* The variables of the query stage.
query ==
    <<checkpoint, cpFile, matchesFile, failedFile, matches_writer, failed_writer, locks,
      run, runs, faults, resume, concurrency, fallback_multi, permits, units, traced,
      log, sent, lastResp, answers, queried, atStart, ckLast, ckSaved>>

\* The query stage is not running and has left nothing on disk.
QueryIdle ==
    /\ checkpoint = [live |-> FALSE, processed |-> {}]
    /\ cpFile = NoFile
    /\ matchesFile = NoFile
    /\ failedFile = NoFile
    /\ matches_writer = <<>>
    /\ failed_writer = <<>>
    /\ locks = Unlocked
    /\ run = "idle"
    /\ runs = 0
    /\ faults = 0
    /\ resume = FALSE
    /\ concurrency = 1
    /\ fallback_multi = FALSE
    /\ permits = concurrency
    /\ units = <<>>
    /\ traced = FALSE
    /\ log = <<>>
    /\ sent = <<>>
    /\ lastResp = <<>>
    /\ answers = <<>>
    /\ queried = {}
    /\ atStart = NoRun
    /\ ckLast = NoOp
    /\ ckSaved = [valid |-> FALSE, set |-> {}]

HashInit ==
    /\ QueryIdle
    /\ hashes = <<>>
    /\ reconcile = NoReconcile
    /\ extract = NoExtract

\* One call hash_affiliation(a).
HashCall(a) ==
    /\ Len(hashes) < MaxCalls
    /\ hashes' = Append(hashes, [input |-> a, output |-> hash_affiliation(a)])
    /\ UNCHANGED <<query, reconcile, extract>>

HashNext == \E a \in HashInputs : HashCall(a)

SpecHash == HashInit /\ [][HashNext]_vars

------------------------------------------------------------------------------
(* reconcile (src/src/reconcile/mod.rs:57-228) *)

\* Largest number of lines of doi_author_affiliations.jsonl.
MaxLines == 3

Dois == {"10.1234/a", "10.1234/b"}
AuthorIdxs == {0, 1}
ExistingRor == "https://ror.org/052gg0110"
MatchedRor == "https://ror.org/abc123"

\* The name of the author at a position of the creators array.
author_name_of(idx) == IF idx = 0 THEN "Doe, Jane" ELSE "Roe, Rick"
idx_of(name) == IF name = "Doe, Jane" THEN 0 ELSE 1

AuthorAffiliationRecord(doi, author_idx, affiliation, existing_ror_id) ==
    [doi |-> doi, author_idx |-> author_idx, author_name |-> author_name_of(author_idx),
     affiliation |-> affiliation, affiliation_hash |-> hash_affiliation(affiliation),
     existing_ror_id |-> existing_ror_id]

Records ==
    {AuthorAffiliationRecord(d, i, a, e) :
        d \in Dois, i \in AuthorIdxs, a \in {AffA, AffB}, e \in {Null, ExistingRor}}

\* A line of the relationship file: a record, or a line serde_json cannot parse.
Parsed(r) == [ok |-> TRUE, record |-> r]
Unparsable == [ok |-> FALSE, record |-> AuthorAffiliationRecord(Null, 0, AffA, Null)]
Lines == {Parsed(r) : r \in Records} \cup {Unparsable}

Inputs == UNION {[1..n -> Lines] : n \in 0..MaxLines}

\* The lookup load_ror_matches builds: fingerprint -> ROR id.
Lookups ==
    {[h \in {} |-> MatchedRor], [h \in {hash_affiliation(AffA)} |-> MatchedRor]}

EnrichedAffiliation(name, ror_id) ==
    [name |-> name, affiliation_identifier |-> ror_id,
     affiliation_identifier_scheme |-> "ROR", scheme_uri |-> "https://ror.org"]

EnrichedCreator(name, affiliation) ==
    [name |-> name, given_name |-> Null, family_name |-> Null, affiliation |-> affiliation]

EnrichedRecord(doi, creators) == [doi |-> doi, creators |-> creators]

ExistingAssignment(r) ==
    [doi |-> r.doi, author_idx |-> r.author_idx, author_name |-> r.author_name,
     affiliation |-> r.affiliation, ror_id |-> r.existing_ror_id]

\* Option<EnrichedRecord>
None == [some |-> FALSE, value |-> EnrichedRecord(Null, <<>>)]
Some(v) == [some |-> TRUE, value |-> v]

RECURSIVE Ascending(_)
\* The keys of a BTreeMap in the order into_values visits them.
Ascending(S) ==
    IF S = {} THEN <<>>
    ELSE LET m == CHOOSE x \in S : \A y \in S : x <= y
         IN <<m>> \o Ascending(S \ {m})

\* The authors of a group as the BTreeMap holds them after the loop of lines 66-79:
\* by author_idx, with the name of the first record of the author and the matched
\* affiliations in the order of the records.
authors_of(records, ror_lookup) ==
    LET keys == Ascending({records[i].author_idx : i \in 1..Len(records)})
        first(idx) == CHOOSE i \in 1..Len(records) :
                          /\ records[i].author_idx = idx
                          /\ \A j \in 1..(i - 1) : records[j].author_idx # idx
        matched(idx) == SelectSeq(records,
                                  LAMBDA r : r.author_idx = idx
                                             /\ r.affiliation_hash \in DOMAIN ror_lookup)
    IN [k \in 1..Len(keys) |->
          [name |-> records[first(keys[k])].author_name,
           affiliations |-> matched(keys[k])]]

\* The creators built from the authors (lines 84-101), every author kept.
creators_of(authors, ror_lookup) ==
    [k \in 1..Len(authors) |->
        EnrichedCreator(authors[k].name,
                        [j \in 1..Len(authors[k].affiliations) |->
                            EnrichedAffiliation(
                                authors[k].affiliations[j].affiliation,
                                ror_lookup[authors[k].affiliations[j].affiliation_hash])])]

\* A grouping that keeps the authors without a matched affiliation.
process_doi_group_AllAuthors(doi, records, ror_lookup) ==
    LET creators == creators_of(authors_of(records, ror_lookup), ror_lookup)
    IN IF Len(creators) = 0 THEN None ELSE Some(EnrichedRecord(doi, creators))

process_doi_group(doi, records, ror_lookup) ==
    LET kept == SelectSeq(authors_of(records, ror_lookup),
                          LAMBDA author : Len(author.affiliations) > 0)
        creators == creators_of(kept, ror_lookup)
    IN IF Len(creators) = 0 THEN None ELSE Some(EnrichedRecord(doi, creators))

\* The enriched file after the group that is open, if any, has been processed
\* (lines 198-207 and 215-224).
emit(enriched, current_doi, current_group, ror_lookup) ==
    LET e == process_doi_group(current_doi, current_group, ror_lookup)
    IN IF Len(current_group) > 0 /\ e.some THEN Append(enriched, e.value) ELSE enriched

ReconcileInit ==
    /\ QueryIdle
    /\ hashes = <<>>
    /\ reconcile \in
          {[pc |-> "reading", input |-> in, ror_lookup |-> l, pos |-> 0,
            current_doi |-> Null, current_group |-> <<>>, enriched |-> <<>>,
            existing |-> <<>>] : in \in Inputs, l \in Lookups}
    /\ extract = NoExtract

\* One iteration of the loop over the lines of the relationship file (lines 160-213).
ReadLine ==
    /\ reconcile.pc = "reading"
    /\ reconcile.pos < Len(reconcile.input)
    /\ LET line == reconcile.input[reconcile.pos + 1]
           record == line.record
           read == [reconcile EXCEPT !.pos = @ + 1]
           is_new_doi == reconcile.current_doi # record.doi
       IN reconcile' =
            IF ~line.ok THEN read
            ELSE IF record.existing_ror_id # Null
            THEN [read EXCEPT !.existing = Append(@, ExistingAssignment(record))]
            ELSE IF is_new_doi
            THEN [read EXCEPT !.enriched = emit(@, reconcile.current_doi,
                                                reconcile.current_group,
                                                reconcile.ror_lookup),
                              !.current_doi = record.doi,
                              !.current_group = <<record>>]
            ELSE [read EXCEPT !.current_doi = record.doi,
                              !.current_group = Append(@, record)]
    /\ UNCHANGED <<query, hashes, extract>>

\* The end of the file: the last group is processed and the writers are flushed
\* (lines 215-228).
EndOfInput ==
    /\ reconcile.pc = "reading"
    /\ reconcile.pos = Len(reconcile.input)
    /\ reconcile' = [reconcile EXCEPT !.pc = "done",
                                      !.enriched = emit(@, reconcile.current_doi,
                                                        reconcile.current_group,
                                                        reconcile.ror_lookup)]
    /\ UNCHANGED <<query, hashes, extract>>

ReconcileNext == ReadLine \/ EndOfInput

SpecReconcile == ReconcileInit /\ [][ReconcileNext]_vars

------------------------------------------------------------------------------
(* parse_affiliations (src/src/extract/parser.rs) *)

\* Largest number of creators of a DataCite record.
MaxCreators == 2

\* serde_json::Value
JNull == [t |-> "null"]
JNumber == [t |-> "number"]
JString(s) == [t |-> "string", s |-> s]
JArray(items) == [t |-> "array", items |-> items]
JObject(fields) == [t |-> "object", fields |-> fields]

\* Option<T> of the parser's helpers.
Absent == [some |-> FALSE]
Present(v) == [some |-> TRUE, value |-> v]

\* Value::get(key): the member of an object, None for a missing key or a value
\* that is no object.
get(v, key) ==
    IF v.t = "object" /\ key \in DOMAIN v.fields THEN Present(v.fields[key]) ELSE Absent

\* .and_then(Value::as_str)
as_str(o) == IF o.some /\ o.value.t = "string" THEN Present(o.value.s) ELSE Absent

RECURSIVE pointer(_, _)
\* Value::pointer over the keys of a path.
pointer(v, path) ==
    IF path = <<>> THEN Present(v)
    ELSE LET n == get(v, Head(path)) IN
         IF n.some THEN pointer(n.value, Tail(path)) ELSE Absent

\* extract_doi: "id" if it is a string, else "/attributes/doi" if it is a string.
extract_doi(record) ==
    LET id == as_str(get(record, "id")) IN
    IF id.some THEN id ELSE as_str(pointer(record, <<"attributes", "doi">>))

extract_author_name(creator) == as_str(get(creator, "name"))

\* An extraction that only knows the object form of an affiliation.
extract_affiliation_name_ObjectOnly(affiliation) ==
    IF affiliation.t = "object" THEN as_str(get(affiliation, "name")) ELSE Absent

\* extract_affiliation_name: a plain string, or the "name" of an object.
extract_affiliation_name(affiliation) ==
    CASE affiliation.t = "string" -> Present(affiliation.s)
      [] affiliation.t = "object" -> as_str(get(affiliation, "name"))
      [] OTHER -> Absent

\* The AuthorAffiliationRecord the parser pushes (lines 60-67).
ParsedAffiliation(doi, author_idx, author_name, affiliation_idx, affiliation) ==
    [doi |-> doi, author_idx |-> author_idx, author_name |-> author_name,
     affiliation_idx |-> affiliation_idx, affiliation |-> affiliation,
     affiliation_hash |-> hash_affiliation(affiliation)]

RECURSIVE affiliations_loop(_, _, _, _, _, _)
\* The loop over affiliations.iter().enumerate() (lines 57-70), from affiliation_idx.
affiliations_loop(doi, author_idx, author_name, affiliations, affiliation_idx, results) ==
    IF affiliation_idx >= Len(affiliations) THEN results
    ELSE LET name == extract_affiliation_name(affiliations[affiliation_idx + 1])
             pushed == IF name.some /\ name.value # <<>>
                       THEN Append(results,
                                   ParsedAffiliation(doi, author_idx, author_name,
                                                     affiliation_idx, name.value))
                       ELSE results
         IN affiliations_loop(doi, author_idx, author_name, affiliations,
                              affiliation_idx + 1, pushed)

RECURSIVE creators_loop(_, _, _, _)
\* The loop over creators.iter().enumerate() (lines 46-71), from author_idx.
creators_loop(doi, creators, author_idx, results) ==
    IF author_idx >= Len(creators) THEN results
    ELSE LET creator == creators[author_idx + 1]
             author_name == extract_author_name(creator)
             affiliations == get(creator, "affiliation")
             pushed == IF ~author_name.some THEN results
                       ELSE IF ~(affiliations.some /\ affiliations.value.t = "array")
                       THEN results
                       ELSE affiliations_loop(doi, author_idx, author_name.value,
                                              affiliations.value.items, 0, results)
         IN creators_loop(doi, creators, author_idx + 1, pushed)

\* parse_affiliations (lines 33-74).
parse_affiliations(record) ==
    LET doi == extract_doi(record)
        creators == pointer(record, <<"attributes", "creators">>)
    IN IF ~doi.some THEN <<>>
       ELSE IF ~(creators.some /\ creators.value.t = "array") THEN <<>>
       ELSE creators_loop(doi.value, creators.value.items, 0, <<>>)

\* The "affiliation" arrays of the creators: both forms of an entry, entries with an
\* empty name, without a name, with a name that is no string, and entries that are
\* neither a string nor an object.
AffiliationLists ==
    {<<>>,
     <<JObject([name |-> JString(AffA)])>>,
     <<JString(AffA), JObject([name |-> JString(AffB)])>>,
     <<JObject([name |-> JString(<<>>)]), JNumber, JString(AffB)>>,
     <<JString(<<>>), JObject([affiliationIdentifier |-> JString(AffA)]), JNull,
       JObject([name |-> JNumber])>>}

\* The creators: with a name or without, with an affiliation array, without the
\* member, with a member that is no array; and a creator that is no object.
Creators ==
    {JObject([name |-> n, affiliation |-> JArray(l)]) :
        n \in {JString("Doe, Jane"), JString("Roe, Rick")}, l \in AffiliationLists}
      \cup {JObject([name |-> JString("Doe, Jane"), affiliation |-> a]) :
               a \in {JString(AffA), JNull}}
      \cup {JObject([name |-> JNumber, affiliation |-> JArray(<<JString(AffA)>>)]),
            JObject([name |-> JString("Doe, Jane")]),
            JObject([affiliation |-> JArray(<<JString(AffA)>>)]),
            JString("Doe, Jane")}

CreatorArrays == UNION {[1..n -> Creators] : n \in 0..MaxCreators}

\* The "attributes" of a record: creators as an array, as something else, or missing,
\* with the doi or without.
Attributes ==
    {JObject([doi |-> JString("10.1234/a"), creators |-> JArray(c)]) : c \in CreatorArrays}
      \cup {JObject([creators |-> JArray(c)]) : c \in CreatorArrays}
      \cup {JObject([doi |-> JString("10.1234/a"), creators |-> JString("Doe, Jane")]),
            JObject([doi |-> JString("10.1234/a")])}

\* The parsed lines of the input files: records with the DOI as "id", as
\* "attributes.doi" or nowhere, and a line that is no object.
DataciteRecords ==
    {JObject([id |-> i, attributes |-> a]) :
        i \in {JString("10.1234/b"), JNumber}, a \in Attributes}
      \cup {JObject([attributes |-> a]) : a \in Attributes}
      \cup {JObject([id |-> JString("10.1234/b")]), JArray(<<>>)}

ParseInit ==
    /\ QueryIdle
    /\ hashes = <<>>
    /\ reconcile = NoReconcile
    /\ extract \in {[pc |-> "parse", record |-> r, returned |-> FALSE, results |-> <<>>] :
                      r \in DataciteRecords}

\* One call parse_affiliations(&record).
ParseCall ==
    /\ extract.pc = "parse"
    /\ ~extract.returned
    /\ extract' = [extract EXCEPT !.returned = TRUE,
                                  !.results = parse_affiliations(extract.record)]
    /\ UNCHANGED <<query, hashes, reconcile>>

ParseNext == ParseCall

SpecParse == ParseInit /\ [][ParseNext]_vars

------------------------------------------------------------------------------
(* extract::run (src/src/extract/mod.rs): the worker threads of the rayon pool, *)
(* the bounded channel and the writer thread                                    *)

\* Largest number of threads of the pool and largest batch size of a run.
MaxThreads == 2
MaxBatchSize == 2

\* The lines of an input file as reader.lines() yields them: a line that
\* serde_json parses, a line that is blank after trim(), a line that is no JSON,
\* and a read that fails (a gzip stream cut short).
JsonLine(v) == [kind |-> "json", value |-> v]
BlankLine == [kind |-> "blank"]
GarbageLine == [kind |-> "garbage"]
ReadError == [kind |-> "error"]

\* A record with one creator and two affiliations, one with one creator and
\* one affiliation, and a value parse_affiliations returns nothing for.
RecordTwo ==
    JObject([attributes |-> JObject([doi |-> JString("10.1234/a"),
        creators |-> JArray(<<JObject([name |-> JString("Doe, Jane"),
            affiliation |-> JArray(<<JString(AffA),
                                     JObject([name |-> JString(AffB)])>>)])>>)])])
RecordOne ==
    JObject([id |-> JString("10.1234/b"), attributes |-> JObject([
        creators |-> JArray(<<JObject([name |-> JString("Roe, Rick"),
            affiliation |-> JArray(<<JObject([name |-> JString(AffA)])>>)])>>)])])
RecordNone == JArray(<<>>)

\* An input file: whether File::open succeeds, and its lines.
InputFile(opens, content) == [opens |-> opens, content |-> content]

\* A file of five lines with the same record, a file with every kind of line, a
\* file whose read fails after its first record, and a file that cannot be opened.
LongFile == InputFile(TRUE, [i \in 1..5 |-> JsonLine(RecordOne)])
MixedFile == InputFile(TRUE, <<JsonLine(RecordTwo), BlankLine, GarbageLine,
                               JsonLine(RecordNone), JsonLine(RecordOne)>>)
CutFile == InputFile(TRUE, <<JsonLine(RecordOne), ReadError, JsonLine(RecordTwo)>>)
LockedFile == InputFile(FALSE, <<>>)

\* What find_jsonl_gz_files returns.
FileLists ==
    {<<>>, <<LongFile>>, <<MixedFile>>, <<CutFile>>, <<MixedFile, MixedFile>>,
     <<MixedFile, CutFile>>, <<LockedFile, MixedFile>>, <<LongFile, MixedFile>>}

\* A closure call of par_iter().for_each_with on one file: not yet taken by a
\* thread of the pool, in the loop over the lines, in tx.send of the loop, done.
\* failed: process_file returned Err; lost: the batch it held then.
QueuedFile == [pc |-> "queued", line |-> 1, batch |-> <<>>, failed |-> FALSE, lost |-> <<>>]

\* bounded(num_threads * 4)
capacity == extract.num_threads * 4

ExtractInit ==
    /\ QueryIdle
    /\ hashes = <<>>
    /\ reconcile = NoReconcile
    /\ extract \in {[pc |-> "run", files |-> fl, num_threads |-> n, batch_size |-> b,
                     main |-> "start", workers |-> [f \in DOMAIN fl |-> QueuedFile],
                     channel |-> <<>>, rx |-> TRUE, writer |-> "create",
                     writer_result |-> "none", output |-> <<>>, unique |-> {},
                     unique_file |-> Absent] :
                      fl \in FileLists, n \in 1..MaxThreads, b \in 0..MaxBatchSize}

\* The files a thread of the pool is working on.
Busy == {f \in DOMAIN extract.workers : extract.workers[f].pc \in {"lines", "send"}}

\* run up to the spawn of the writer thread: without files it returns Ok(()).
FindFiles ==
    /\ extract.pc = "run"
    /\ extract.main = "start"
    /\ extract' = [extract EXCEPT !.main = IF extract.files = <<>> THEN "ok" ELSE "workers"]
    /\ UNCHANGED <<query, hashes, reconcile>>

\* A thread of the pool takes a file: process_file up to the loop.
StartFile(f) ==
    /\ extract.pc = "run"
    /\ extract.main = "workers"
    /\ f \in DOMAIN extract.workers
    /\ extract.workers[f].pc = "queued"
    /\ Cardinality(Busy) < extract.num_threads
    /\ extract' = [extract EXCEPT !.workers[f] =
            IF extract.files[f].opens
            THEN [@ EXCEPT !.pc = "lines"]
            ELSE [@ EXCEPT !.pc = "done", !.failed = TRUE]]
    /\ UNCHANGED <<query, hashes, reconcile>>

\* One turn of the loop over the lines, up to tx.send.
NextLine(f) ==
    /\ extract.pc = "run"
    /\ f \in DOMAIN extract.workers
    /\ extract.workers[f].pc = "lines"
    /\ extract.workers[f].line <= Len(extract.files[f].content)
    /\ LET w == extract.workers[f]
           l == extract.files[f].content[w.line]
       IN CASE l.kind = "error" ->
                 extract' = [extract EXCEPT !.workers[f] =
                     [w EXCEPT !.pc = "done", !.failed = TRUE, !.lost = w.batch,
                               !.batch = <<>>]]
            [] l.kind \in {"blank", "garbage"} ->
                 extract' = [extract EXCEPT !.workers[f].line = w.line + 1]
            [] l.kind = "json" ->
                 LET affiliations == parse_affiliations(l.value)
                     batch == w.batch \o affiliations
                 IN extract' = [extract EXCEPT
                        !.unique = @ \cup {affiliations[i].affiliation :
                                             i \in DOMAIN affiliations},
                        !.workers[f] =
                            IF Len(batch) >= extract.batch_size
                            THEN [w EXCEPT !.pc = "send", !.batch = batch]
                            ELSE [w EXCEPT !.line = w.line + 1, !.batch = batch]]
    /\ UNCHANGED <<query, hashes, reconcile>>

\* tx.send(std::mem::take(&mut batch)) of the loop: it waits for room in the
\* channel; with the receiver dropped it fails and the loop breaks.
SendBatch(f) ==
    /\ extract.pc = "run"
    /\ f \in DOMAIN extract.workers
    /\ extract.workers[f].pc = "send"
    /\ LET w == extract.workers[f]
       IN \/ /\ ~extract.rx
             /\ extract' = [extract EXCEPT !.workers[f] =
                    [w EXCEPT !.pc = "lines", !.batch = <<>>,
                              !.line = Len(extract.files[f].content) + 1]]
          \/ /\ extract.rx
             /\ Len(extract.channel) < capacity
             /\ extract' = [extract EXCEPT
                    !.channel = Append(@, w.batch),
                    !.workers[f] = [w EXCEPT !.pc = "lines", !.batch = <<>>,
                                             !.line = w.line + 1]]
    /\ UNCHANGED <<query, hashes, reconcile>>

\* After the loop: the rest of the batch is sent, an error of send is ignored.
FinalSend(f) ==
    /\ extract.pc = "run"
    /\ f \in DOMAIN extract.workers
    /\ extract.workers[f].pc = "lines"
    /\ extract.workers[f].line > Len(extract.files[f].content)
    /\ LET w == extract.workers[f]
       IN \/ /\ w.batch = <<>> \/ ~extract.rx
             /\ extract' = [extract EXCEPT !.workers[f] =
                    [w EXCEPT !.pc = "done", !.batch = <<>>]]
          \/ /\ w.batch # <<>>
             /\ extract.rx
             /\ Len(extract.channel) < capacity
             /\ extract' = [extract EXCEPT
                    !.channel = Append(@, w.batch),
                    !.workers[f] = [w EXCEPT !.pc = "done", !.batch = <<>>]]
    /\ UNCHANGED <<query, hashes, reconcile>>

\* The writer thread: File::create of doi_author_affiliations.jsonl. When it
\* fails the thread returns Err and the receiver is dropped.
WriterCreate ==
    /\ extract.pc = "run"
    /\ extract.main \in {"workers", "join"}
    /\ extract.writer = "create"
    /\ \E ok \in BOOLEAN :
          extract' = IF ok
                     THEN [extract EXCEPT !.writer = "recv"]
                     ELSE [extract EXCEPT !.writer = "done", !.writer_result = "err",
                                          !.rx = FALSE, !.channel = <<>>]
    /\ UNCHANGED <<query, hashes, reconcile>>

\* The writer thread: rx.recv() of a batch and the write of its records.
WriterRecv ==
    /\ extract.pc = "run"
    /\ extract.writer = "recv"
    /\ extract.channel # <<>>
    /\ \E ok \in BOOLEAN :
          extract' = IF ok
                     THEN [extract EXCEPT !.channel = Tail(@),
                                          !.output = @ \o Head(extract.channel)]
                     ELSE [extract EXCEPT !.writer = "done", !.writer_result = "err",
                                          !.rx = FALSE, !.channel = <<>>]
    /\ UNCHANGED <<query, hashes, reconcile>>

\* The writer thread: rx.recv() fails with the channel empty and every sender
\* dropped; writer.flush() ends the thread.
WriterFlush ==
    /\ extract.pc = "run"
    /\ extract.writer = "recv"
    /\ extract.channel = <<>>
    /\ extract.main = "join"
    /\ \E ok \in BOOLEAN :
          extract' = [extract EXCEPT !.writer = "done", !.rx = FALSE,
                                     !.writer_result = IF ok THEN "ok" ELSE "err"]
    /\ UNCHANGED <<query, hashes, reconcile>>

\* for_each_with has returned; drop(tx).
DropTx ==
    /\ extract.pc = "run"
    /\ extract.main = "workers"
    /\ \A f \in DOMAIN extract.workers : extract.workers[f].pc = "done"
    /\ extract' = [extract EXCEPT !.main = "join"]
    /\ UNCHANGED <<query, hashes, reconcile>>

\* writer_handle.join().unwrap()? and the write of unique_affiliations.json, in
\* an order in which the iterator of the HashSet may yield its members.
JoinWriter ==
    /\ extract.pc = "run"
    /\ extract.main = "join"
    /\ extract.writer = "done"
    /\ \/ /\ extract.writer_result = "err"
          /\ extract' = [extract EXCEPT !.main = "err"]
       \/ /\ extract.writer_result = "ok"
          /\ \/ extract' = [extract EXCEPT !.main = "err"]
             \/ \E order \in Orders(extract.unique) :
                   extract' = [extract EXCEPT !.main = "ok",
                                              !.unique_file = Present(order)]
    /\ UNCHANGED <<query, hashes, reconcile>>

ExtractNext ==
    \/ FindFiles
    \/ \E f \in 1..2 : StartFile(f) \/ NextLine(f) \/ SendBatch(f) \/ FinalSend(f)
    \/ WriterCreate
    \/ WriterRecv
    \/ WriterFlush
    \/ DropTx
    \/ JoinWriter

SpecExtract == ExtractInit /\ [][ExtractNext]_vars

------------------------------------------------------------------------------
(* Claims about the extract stage *)

\* C31: parse_affiliations returns nothing for a record without a DOI or without a
\* creators array; otherwise it returns exactly one record for every pair of a
\* creator with a string name and an affiliation array, and an entry of that array
\* that is a non-empty string or an object with a non-empty string name; each
\* record carries the DOI, the positions of the creator and of the entry in their
\* arrays (from 0), the creator's name, the affiliation's name and its fingerprint;
\* and the records come in the order of the document.
C31_OneRecordPerPair ==
    (extract.pc = "parse" /\ extract.returned) =>
        LET r == extract.record
            res == extract.results
            has(v, k) == v.t = "object" /\ k \in DOMAIN v.fields
            str(v, k) == has(v, k) /\ v.fields[k].t = "string"
            with_doi == str(r, "id") \/ (has(r, "attributes") /\ str(r.fields.attributes, "doi"))
            with_creators == /\ has(r, "attributes")
                             /\ has(r.fields.attributes, "creators")
                             /\ r.fields.attributes.fields.creators.t = "array"
        IN
        IF ~(with_doi /\ with_creators) THEN res = <<>>
        ELSE LET cs == r.fields.attributes.fields.creators.items
                 doi == IF str(r, "id") THEN r.fields.id.s ELSE r.fields.attributes.fields.doi.s
                 entries(i) == cs[i].fields.affiliation.items
                 named(e) == \/ e.t = "string" /\ e.s # <<>>
                             \/ str(e, "name") /\ e.fields.name.s # <<>>
                 name_of(e) == IF e.t = "string" THEN e.s ELSE e.fields.name.s
                 contributing == {i \in 1..Len(cs) :
                                    /\ str(cs[i], "name")
                                    /\ has(cs[i], "affiliation")
                                    /\ cs[i].fields.affiliation.t = "array"}
                 pairs == UNION {{<<i, j>> : j \in {n \in 1..Len(entries(i)) :
                                                      named(entries(i)[n])}} :
                                   i \in contributing}
             IN
             /\ Len(res) = Cardinality(pairs)
             /\ \A k \in 1..Len(res) :
                   LET i == res[k].author_idx + 1
                       j == res[k].affiliation_idx + 1
                   IN /\ <<i, j>> \in pairs
                      /\ res[k].doi = doi
                      /\ res[k].author_name = cs[i].fields.name.s
                      /\ res[k].affiliation = name_of(entries(i)[j])
                      /\ res[k].affiliation_hash = hash_affiliation(res[k].affiliation)
             /\ \A k \in 1..Len(res), l \in 1..Len(res) :
                   k < l => \/ res[k].author_idx < res[l].author_idx
                            \/ /\ res[k].author_idx = res[l].author_idx
                               /\ res[k].affiliation_idx < res[l].affiliation_idx

C31_Witness ==
    /\ extract.pc = "parse" /\ extract.returned
    /\ Len(extract.results) = 3
    /\ extract.results[1].author_idx = 0 /\ extract.results[1].affiliation_idx = 2
    /\ extract.results[2].author_idx = 1 /\ extract.results[2].affiliation_idx = 0
    /\ extract.results[3].author_idx = 1 /\ extract.results[3].affiliation_idx = 1
    /\ extract.results[3].affiliation = AffB
    /\ extract.results[3].doi = "10.1234/a"

\* The lines of a file that process_file reads: none of a file that does not
\* open, and those before the first failing read otherwise.
LinesRead(file) ==
    IF ~file.opens THEN <<>>
    ELSE LET errors == {i \in DOMAIN file.content : file.content[i].kind = "error"}
             stop == IF errors = {} THEN Len(file.content) + 1
                     ELSE CHOOSE i \in errors : \A j \in errors : i <= j
         IN SubSeq(file.content, 1, stop - 1)

\* The records parse_affiliations returns for the lines read of a file.
ParsedOf(file) ==
    LET read == LinesRead(file)
    IN Concat([i \in DOMAIN read |->
                  IF read[i].kind = "json" THEN parse_affiliations(read[i].value)
                  ELSE <<>>])

\* The records parsed in a run over all files.
ParsedRecords == Concat([f \in DOMAIN extract.files |-> ParsedOf(extract.files[f])])

\* The number of times a record occurs in a sequence of records.
Occurrences(r, records) == Cardinality({i \in DOMAIN records : records[i] = r})

\* unique_affiliations.json holds each distinct affiliation string of the parsed
\* records exactly once.
UniqueFileExact ==
    /\ extract.unique_file.some
    /\ LET written == extract.unique_file.value
       IN /\ \A i, j \in DOMAIN written : written[i] = written[j] => i = j
          /\ {written[i] : i \in DOMAIN written}
               = {ParsedRecords[i].affiliation : i \in DOMAIN ParsedRecords}

\* C32 as stated: when extract completes, for any number of threads, any batch
\* size and any interleaving, the relationship file holds every parsed
\* author-affiliation record exactly once, and unique_affiliations.json holds
\* each distinct affiliation string exactly once.
C32_EveryParsedRecordOnce ==
    (extract.pc = "run" /\ extract.main = "ok" /\ extract.files # <<>>) =>
        /\ \A r \in {ParsedRecords[i] : i \in DOMAIN ParsedRecords}
                      \cup {extract.output[i] : i \in DOMAIN extract.output} :
              Occurrences(r, extract.output) = Occurrences(r, ParsedRecords)
        /\ UniqueFileExact

\* What holds of the code instead: the relationship file holds every parsed record
\* exactly once except the records in the batch of a file whose read failed, and
\* nothing is lost or duplicated when every file is read to its end.
ExtractOutputsButLost ==
    (extract.pc = "run" /\ extract.main = "ok" /\ extract.files # <<>>) =>
        LET lost == Concat([f \in DOMAIN extract.workers |-> extract.workers[f].lost])
        IN /\ \A r \in {ParsedRecords[i] : i \in DOMAIN ParsedRecords}
                         \cup {extract.output[i] : i \in DOMAIN extract.output} :
                 Occurrences(r, extract.output) + Occurrences(r, lost)
                   = Occurrences(r, ParsedRecords)
           /\ UniqueFileExact
           /\ (\A f \in DOMAIN extract.workers : extract.workers[f].lost = <<>>)
                 => C32_EveryParsedRecordOnce

\* A run that completed with both files read to their end by two threads, and one
\* that completed after the channel was full.
ExtractCompleteState ==
    /\ extract.pc = "run" /\ extract.main = "ok"
    /\ extract.files = <<LongFile, MixedFile>>
    /\ Len(extract.output) = 8

ChannelFullState ==
    /\ extract.pc = "run"
    /\ Len(extract.channel) = capacity
    /\ \E f \in DOMAIN extract.workers : extract.workers[f].pc = "send"

\* A run that completed although a parsed record was dropped.
RecordLostState ==
    /\ extract.pc = "run" /\ extract.main = "ok"
    /\ \E f \in DOMAIN extract.workers : extract.workers[f].lost # <<>>

------------------------------------------------------------------------------
(* Claims about the permits of the client *)

\* C1: with concurrency limit N and more calls dispatched than N, at most N calls
\* are ever past the acquisition of their permit and not yet returned.
C1_ConcurrencyBound ==
    Cardinality({u \in DOMAIN units : units[u].pc \in {"req", "sleep"}}) <= concurrency

C1_Witness ==
    /\ Cardinality(DOMAIN units) > concurrency
    /\ Cardinality({u \in DOMAIN units : units[u].pc \in {"req", "sleep"}}) = concurrency
    /\ \E u \in DOMAIN units : units[u].pc = "spawned"

\* C2: a call holds exactly one permit from before its first request, through every
\* phase, retry and backoff sleep, until it returns, and gives it back on every
\* return path; when every call has returned the pool holds all N permits again.
C2_PermitHeldThenReleased ==
    LET holders == {u \in DOMAIN units : units[u].permit} IN
    /\ \A u \in DOMAIN units : units[u].permit <=> units[u].pc \in {"req", "sleep"}
    /\ \A u \in DOMAIN units : units[u].pc = "spawned" => u \notin queried
    /\ permits + Cardinality(holders) = concurrency
    /\ (\A u \in DOMAIN units : units[u].pc \notin {"spawned", "req", "sleep"})
          => permits = concurrency

C2_Witness ==
    /\ Cardinality(DOMAIN units) = 2
    /\ \A u \in DOMAIN units : units[u].pc = "returned"
    /\ \E u \in DOMAIN units : units[u].res.kind = "err"
    /\ \E u \in DOMAIN units : units[u].res.kind = "some"
    /\ permits = concurrency

------------------------------------------------------------------------------
(* Claims about the orchestrator *)

\* C3: a fingerprint is in the checkpoint, in memory during a run and in the file
\* after a run that returned Ok, only if a Match or Failure record for it has been
\* recorded in a sink.
C3_CheckpointOnlyRecorded ==
    LET written == {matchesFile.data[i].affiliation_hash : i \in 1..Len(matchesFile.data)}
                       \cup {failedFile.data[i].affiliation_hash : i \in 1..Len(failedFile.data)}
        buffered == {matches_writer[i].affiliation_hash : i \in 1..Len(matches_writer)}
                        \cup {failed_writer[i].affiliation_hash : i \in 1..Len(failed_writer)}
    IN /\ run \in {"running", "flushed_matches", "flushed_failed"}
            => checkpoint.processed \subseteq written \cup buffered
       /\ run = "ok" => load(cpFile, TRUE).cp.processed \subseteq written

\* C4: after a completed run over {A, B}, a resumed run over {A, B, C} that returns Ok
\* has sent no request for A or B and has appended exactly one record, that of C,
\* behind the records the sinks held.
C4_ResumeAppendsOne ==
    (/\ run = "ok"
     /\ resume
     /\ atStart.input = {AffA, AffB, AffC}
     /\ atStart.done = {hash_affiliation(AffA), hash_affiliation(AffB)})
        => LET m == matchesFile.data
               f == failedFile.data
               m0 == Len(atStart.matches)
               f0 == Len(atStart.failed)
           IN /\ queried \cap {AffA, AffB} = {}
              /\ Len(m) >= m0 /\ SubSeq(m, 1, m0) = atStart.matches
              /\ Len(f) >= f0 /\ SubSeq(f, 1, f0) = atStart.failed
              /\ Len(m) + Len(f) = m0 + f0 + 1
              /\ \A i \in (m0 + 1)..Len(m) : m[i].affiliation = AffC
              /\ \A i \in (f0 + 1)..Len(f) : f[i].affiliation = AffC

\* C8: a call whose every request was answered 200 with no candidate, broad fallback
\* off, returns Ok(None); and once the orchestrator has done its write for it, the
\* failure sink holds exactly one new record for the input, with the reason of no
\* match, and the match sink none.
C8_NoMatchRecorded ==
    \A u \in DOMAIN units :
        (~fallback_multi /\ answers[u] = "all_empty") =>
            LET allM == matchesFile.data \o matches_writer
                allF == failedFile.data \o failed_writer
                newM == IF resume THEN SubSeq(allM, Len(atStart.matches) + 1, Len(allM))
                        ELSE allM
                newF == IF resume THEN SubSeq(allF, Len(atStart.failed) + 1, Len(allF))
                        ELSE allF
            IN /\ units[u].pc \in {"returned", "write", "cplock", "mark"}
               /\ units[u].res = OkNone
               /\ units[u].pc \in {"cplock", "mark"} =>
                    /\ Cardinality({i \in 1..Len(newF) : newF[i].affiliation = u}) = 1
                    /\ \A i \in 1..Len(newF) :
                          newF[i].affiliation = u
                              => newF[i] = RorMatchFailed(u, hash_affiliation(u), NoMatchError)
                    /\ \A i \in 1..Len(newM) : newM[i].affiliation # u

\* C20: once a unit of work has done its write, the sinks hold exactly one new record
\* for its input, in the match sink iff the call returned an id and otherwise in the
\* failure sink, with the reason of no match for Ok(None) and the text of the error
\* for Err; and after a run that returned Ok the number of new records equals the
\* number of inputs that were dispatched.
C20_OneRecordPerInput ==
    LET allM == matchesFile.data \o matches_writer
        allF == failedFile.data \o failed_writer
        newM == IF resume THEN SubSeq(allM, Len(atStart.matches) + 1, Len(allM)) ELSE allM
        newF == IF resume THEN SubSeq(allF, Len(atStart.failed) + 1, Len(allF)) ELSE allF
        mine(s, u) == {i \in 1..Len(s) : s[i].affiliation = u}
    IN /\ \A u \in DOMAIN units :
            units[u].pc \in {"cplock", "mark"} =>
                LET r == units[u].res
                    h == hash_affiliation(u)
                IN IF r.kind = "some"
                   THEN /\ Cardinality(mine(newM, u)) = 1
                        /\ \A i \in mine(newM, u) : newM[i] = RorMatch(u, h, r.id)
                        /\ mine(newF, u) = {}
                   ELSE /\ Cardinality(mine(newF, u)) = 1
                        /\ \A i \in mine(newF, u) :
                              newF[i] = RorMatchFailed(u, h, IF r.kind = "none"
                                                             THEN NoMatchError ELSE r.err)
                        /\ mine(newM, u) = {}
       /\ run = "ok" =>
            IF dispatched = {}
            THEN matchesFile.data = atStart.matches /\ failedFile.data = atStart.failed
            ELSE Len(newM) + Len(newF) = Cardinality(dispatched)

\* C21: run_async returns Err only after an I/O fault, never because a lookup failed
\* or a task did not join; a task that did not join leaves no lock and no permit
\* taken, so that while units are left one of them can take a step; and when the
\* flushes are reached every unit has ended, each unit that ended
\* normally having (with no I/O fault) its one record and its fingerprint in the
\* checkpoint, which a run that returns Ok has saved.
C21_FailuresIsolated ==
    LET ended == {u \in DOMAIN units : units[u].pc \in {"done", "aborted"}} IN
    /\ run = "err" => faults >= 1
    /\ \A l \in DOMAIN locks : locks[l] # NoOne => locks[l] \notin ended
    /\ permits + Cardinality({u \in DOMAIN units : units[u].permit}) = concurrency
    /\ \A u \in ended : ~units[u].permit
    /\ (run = "running" /\ ended # DOMAIN units) =>
          \E u \in DOMAIN units \ ended :
              \/ units[u].pc \in {"req", "sleep", "write", "mark"}
              \/ units[u].pc = "spawned" /\ permits > 0
              \/ units[u].pc = "returned" /\ locks[sink_of(units[u].res)] = NoOne
              \/ units[u].pc = "cplock" /\ locks.checkpoint = NoOne
    /\ run \in {"flushed_matches", "flushed_failed"} =>
          /\ ended = DOMAIN units
          /\ \A u \in DOMAIN units :
                (units[u].pc = "done" /\ faults = 0)
                    => /\ records_for(u) = 1
                       /\ hash_affiliation(u) \in checkpoint.processed
    /\ (run = "ok" /\ dispatched # {}) =>
          /\ cpFile.exists
          /\ atStart.done \subseteq load(cpFile, TRUE).cp.processed
          /\ matches_writer = <<>> /\ failed_writer = <<>>
          /\ load(cpFile, TRUE).cp.processed
                \subseteq atStart.done \cup {hash_affiliation(a) : a \in dispatched}

C21_Witness ==
    /\ run = "flushed_failed"
    /\ \E u, v \in DOMAIN units :
          /\ units[u].pc = "aborted"
          /\ units[v].pc = "done"
          /\ \E i \in 1..Len(failedFile.data) :
                /\ failedFile.data[i].affiliation = v
                /\ failedFile.data[i].error = HttpError(404)

\* C22 as stated: a run in which an I/O fault occurred on a sink or on the
\* checkpoint file does not return Ok.
C22_IoFaultFatal ==
    run = "ok" => faults = 0

\* C23: once the flush of the match sink has been done, and until run_async returns,
\* every unit has ended, whether its lookup failed or not, no lock is held and every
\* permit is back: no unit is left to write a record or mark the checkpoint.
C23_FlushAfterAllUnits ==
    run \in {"flushed_matches", "flushed_failed"} =>
        /\ \A u \in DOMAIN units : units[u].pc \in {"done", "aborted"}
        /\ locks = Unlocked
        /\ permits = concurrency
        /\ matches_writer = <<>>
        /\ run = "flushed_failed" => failed_writer = <<>>
        /\ cpFile = atStart.files.checkpoint

C23_Witness ==
    /\ run = "flushed_failed"
    /\ Cardinality(DOMAIN units) = 2
    /\ \A u \in DOMAIN units : units[u].pc = "done"
    /\ \E i \in 1..Len(failedFile.data) : failedFile.data[i].error = HttpError(404)
    /\ Len(newMatches) = 1

\* C24: at most one unit is between taking the lock of a sink and the end of its
\* write to it, and at most one between taking the lock of the checkpoint and its
\* insertion; the holder of each lock is that unit; and the records a sink got in the
\* run are whole records, at most one for each unit.
C24_MutualExclusion ==
    LET writing(s) == {u \in DOMAIN units : units[u].pc = "write" /\ sink_of(units[u].res) = s}
        marking == {u \in DOMAIN units : units[u].pc = "mark"}
    IN /\ \A s \in {"matches", "failed"} :
            /\ Cardinality(writing(s)) <= 1
            /\ writing(s) = IF locks[s] = NoOne THEN {} ELSE {locks[s]}
       /\ Cardinality(marking) <= 1
       /\ marking = IF locks.checkpoint = NoOne THEN {} ELSE {locks.checkpoint}
       /\ \A u \in DOMAIN units :
            /\ records_for(u) <= 1
            /\ units[u].pc \in {"spawned", "req", "sleep", "returned", "write"}
                  => records_for(u) = 0
       /\ \A i \in 1..Len(newMatches) :
            \E id \in RorIds :
                newMatches[i] = RorMatch(newMatches[i].affiliation,
                                         hash_affiliation(newMatches[i].affiliation), id)

C24_Witness ==
    \E u, v \in DOMAIN units :
        /\ u # v
        /\ units[u].pc = "write" /\ locks.failed = u
        /\ units[v].pc = "returned" /\ sink_of(units[v].res) = "failed"

\* C25 as stated: a unit is past its sink write, about to mark the checkpoint or
\* having marked it, only if its record has been written; and the checkpoint file is
\* not written while the run is going on.
C25_MarkAfterSuccessfulWrite ==
    /\ \A u \in DOMAIN units :
          units[u].pc \in {"cplock", "mark", "done"} => records_for(u) = 1
    /\ run \in {"running", "flushed_matches", "flushed_failed"}
          => cpFile = atStart.files.checkpoint

\* C26: a run with nothing to dispatch (no input, or every input in the checkpoint it
\* loaded) returns at once, Ok unless the load of the checkpoint failed, having sent
\* no request and leaving the two sinks and the checkpoint file as they were,
\* existing or not.
C26_NothingToProcess ==
    (run # "idle" /\ dispatched = {}) =>
        /\ run \in {"ok", "err"}
        /\ run = "err" => faults >= 1
        /\ queried = {}
        /\ units = <<>>
        /\ matchesFile = atStart.files.matches
        /\ failedFile = atStart.files.failed
        /\ cpFile = atStart.files.checkpoint

C26_Witness ==
    /\ run = "ok"
    /\ resume
    /\ atStart.input = {AffA, AffB}
    /\ dispatched = {}
    /\ matchesFile.exists /\ Len(matchesFile.data) = 1

\* C27: in a resumed run every record the sinks held at its start is still there, in
\* place, whatever the run appends; in a run that does not resume and has opened its
\* sinks, the sinks hold records of dispatched inputs only, none for a unit that has
\* not written yet and at most one for each.
C27_AppendOrTruncate ==
    LET opened == run \in {"running", "flushed_matches", "flushed_failed"}
                      \/ (run = "ok" /\ dispatched # {})
    IN /\ (run # "idle" /\ resume) =>
            /\ Len(matchesFile.data) >= Len(atStart.matches)
            /\ SubSeq(matchesFile.data, 1, Len(atStart.matches)) = atStart.matches
            /\ Len(failedFile.data) >= Len(atStart.failed)
            /\ SubSeq(failedFile.data, 1, Len(atStart.failed)) = atStart.failed
       /\ (opened /\ ~resume) =>
            /\ matchesFile.exists /\ failedFile.exists
            /\ \A i \in 1..Len(allMatches) : allMatches[i].affiliation \in dispatched
            /\ \A i \in 1..Len(allFailed) : allFailed[i].affiliation \in dispatched
            /\ \A a \in dispatched :
                  Cardinality({i \in 1..Len(allMatches) : allMatches[i].affiliation = a})
                      + Cardinality({i \in 1..Len(allFailed) : allFailed[i].affiliation = a})
                          <= 1
            /\ \A u \in DOMAIN units :
                  units[u].pc \in {"spawned", "req", "sleep", "returned", "write"}
                      => /\ \A i \in 1..Len(allMatches) : allMatches[i].affiliation # u
                         /\ \A i \in 1..Len(allFailed) : allFailed[i].affiliation # u

C27_Witness ==
    /\ run = "ok"
    /\ resume
    /\ Len(atStart.matches) = 1
    /\ Len(matchesFile.data) = 2
    /\ matchesFile.data[1] = atStart.matches[1]

C36_OneResourceAtATime ==
    LET held(u) == (IF units[u].permit THEN {"permit"} ELSE {})
                      \cup {l \in DOMAIN locks : locks[l] = u}
        waiting(u) == \/ units[u].pc = "spawned" /\ permits = 0
                      \/ units[u].pc = "returned" /\ locks[sink_of(units[u].res)] # NoOne
                      \/ units[u].pc = "cplock" /\ locks.checkpoint # NoOne
        ended(u) == units[u].pc \in {"done", "aborted"}
    IN
    /\ \A u \in DOMAIN units :
          /\ Cardinality(held(u)) <= 1
          /\ units[u].permit <=> units[u].pc \in {"req", "sleep"}
          /\ units[u].pc = "write" <=> held(u) \cap {"matches", "failed"} # {}
          /\ units[u].pc = "write" => held(u) = {sink_of(units[u].res)}
          /\ units[u].pc = "mark" <=> held(u) = {"checkpoint"}
          /\ held(u) # {} => ~waiting(u)
    /\ \A l \in DOMAIN locks : locks[l] = NoOne \/ locks[l] \in DOMAIN units
    /\ permits + Cardinality({u \in DOMAIN units : units[u].permit}) = concurrency
    /\ (run = "running" /\ \E u \in DOMAIN units : ~ended(u))
          => \E u \in DOMAIN units : ~ended(u) /\ ~waiting(u)

C36_Witness ==
    \E u \in DOMAIN units, v \in DOMAIN units :
        /\ units[u].pc = "write" /\ locks.matches = u
        /\ units[v].pc = "returned" /\ units[v].res.kind = "some"
        /\ ~units[u].permit /\ permits = concurrency

\* C38: while a run lasts the checkpoint set only grows: it is the set the run
\* started with (the one loaded from the file when resuming) plus the fingerprint of
\* every unit that completed; a step changes it only by the completion of a unit,
\* which adds that unit's fingerprint; marking a fingerprint that is in the set
\* leaves the set as it is; and a save that succeeds writes that very set, so the
\* file of a resumed run holds what was loaded and what completed.
C38_CheckpointOnlyGrows ==
    /\ [](run \in {"running", "flushed_matches", "flushed_failed"} =>
            /\ checkpoint.processed
                  = atStart.done
                      \cup {hash_affiliation(u) : u \in {v \in DOMAIN units : units[v].pc = "done"}}
            /\ atStart.done
                  = IF resume /\ atStart.files.checkpoint.exists
                    THEN load(atStart.files.checkpoint, TRUE).cp.processed
                    ELSE {}
            /\ \A h \in checkpoint.processed : mark_processed(checkpoint, h) = checkpoint)
    /\ [][/\ (run = "running" /\ run' # "err")
                => /\ checkpoint.processed \subseteq checkpoint'.processed
                   /\ checkpoint' # checkpoint
                         => \E u \in DOMAIN units :
                               /\ units[u].pc = "mark" /\ units'[u].pc = "done"
                               /\ checkpoint'.processed
                                     = checkpoint.processed \cup {hash_affiliation(u)}
          /\ (run \in {"flushed_matches", "flushed_failed"} /\ run' \notin {"ok", "err"})
                => checkpoint' = checkpoint
          /\ (run = "flushed_failed" /\ run' = "ok")
                => /\ cpFile'.exists
                   /\ load(cpFile', TRUE).cp.processed = checkpoint.processed
      ]_vars

C38_Witness ==
    /\ run = "ok" /\ resume
    /\ atStart.done # {}
    /\ atStart.done \subseteq load(cpFile, TRUE).cp.processed
    /\ load(cpFile, TRUE).cp.processed # atStart.done
    /\ load(cpFile, TRUE).cp.processed # load(atStart.files.checkpoint, TRUE).cp.processed

\* C40: a run ends with the flush of the match sink, then the flush of the failure
\* sink, then the save of the checkpoint, in that order: the failure sink is only
\* flushed once the match sink has been, the checkpoint file is only written once
\* both have been, and until then it is the file the run found; a run that ends on
\* a failed flush leaves the checkpoint file as it was.
C40_FlushThenSave ==
    /\ [](/\ run \in {"running", "flushed_matches", "flushed_failed"}
                => cpFile = atStart.files.checkpoint
          /\ run \in {"flushed_matches", "flushed_failed"} => matches_writer = <<>>
          /\ run = "flushed_failed" => failed_writer = <<>>)
    /\ [][/\ run' = "flushed_matches" => run = "running" \/ run = "flushed_matches"
          /\ run' = "flushed_failed" => run = "flushed_matches" \/ run = "flushed_failed"
          /\ (run = "running" /\ run' = "flushed_matches")
                => /\ matchesFile'.data = matchesFile.data \o matches_writer
                   /\ UNCHANGED <<failedFile, failed_writer, cpFile>>
          /\ (run = "flushed_matches" /\ run' = "flushed_failed")
                => /\ failedFile'.data = failedFile.data \o failed_writer
                   /\ UNCHANGED <<matchesFile, cpFile>>
          /\ (run \in {"running", "flushed_matches", "flushed_failed"} /\ cpFile' # cpFile)
                => run = "flushed_failed" /\ run' \in {"ok", "err"}
          /\ (run \in {"running", "flushed_matches"} /\ run' = "err")
                => cpFile' = cpFile /\ cpFile' = atStart.files.checkpoint
          /\ (run \in {"running", "flushed_matches", "flushed_failed"} /\ run' = "ok")
                => run = "flushed_failed"
      ]_vars

C40_Witness ==
    /\ run = "err" /\ resume
    /\ queried # {}
    /\ cpFile.exists /\ cpFile = atStart.files.checkpoint
    /\ matchesFile.data # atStart.matches
    /\ failedFile.data = atStart.failed

\* C37: under a fair scheduler, with a registry that answers every request, every
\* unit a run dispatched completes, whatever it waits for on the way (a permit, an
\* answer, the end of a sleep, a lock), also when there are more units than permits;
\* and the run reaches the flush of its sinks and ends, with the save of the
\* checkpoint and Ok unless the file system failed.
C37_RunCompletes ==
    /\ (run = "running") ~> (run \in {"ok", "err"})
    /\ [](run = "err" => faults >= 1)
    /\ [](run \in {"flushed_matches", "flushed_failed"}
            => \A u \in DOMAIN units : units[u].pc = "done")
    /\ [][/\ (run = "running" /\ run' # "running")
                => /\ DOMAIN units # {}
                   /\ \A u \in DOMAIN units : units[u].pc = "done"
                   /\ run' \in {"flushed_matches", "err"}
          /\ (run' = "ok" /\ run # "ok" /\ run # "idle")
                => run = "flushed_failed" /\ cpFile'.exists
      ]_vars

C37_Witness ==
    /\ run = "running"
    /\ Cardinality(DOMAIN units) > concurrency
    /\ \E u, v \in DOMAIN units :
          /\ units[u].pc = "sleep" /\ units[u].permit
          /\ units[v].pc = "spawned"
          /\ permits = 0

------------------------------------------------------------------------------
(* Claims about one call of query_affiliation *)

\* C7: when the quoted single-search request ends in HTTP 500 the call sends the
\* unquoted single-search request next, and when that one is answered 200 with a
\* chosen candidate the call returns that candidate's id, two requests having been
\* sent: the quoted one, then the unquoted one.
C7_PhaseFallback ==
    \A u \in DOMAIN units :
        LET l == log[u] IN
        /\ (Len(l) >= 1 /\ l[1].result = Err(HttpError(500)))
              => /\ IsQuoted(l[1].url) /\ IsSingle(l[1].url)
                 /\ Len(l) >= 2
                 /\ ~IsQuoted(l[2].url) /\ IsSingle(l[2].url)
        /\ (/\ Len(l) = 2 /\ l[1].result = Err(HttpError(500))
            /\ sent[u].total = 2
            /\ lastResp[u].t = "http" /\ lastResp[u].status = 200 /\ lastResp[u].decodable
            /\ lastResp[u].candidates = 1 /\ Cardinality(lastResp[u].flagged) = 1)
              => /\ units[u].pc = "returned"
                 /\ units[u].res.kind = "some"
                 /\ lastResp[u].flagged = {units[u].res.id}

C7_Witness ==
    \E u \in DOMAIN units :
        /\ ~fallback_multi
        /\ units[u].pc = "returned" /\ units[u].res.kind = "some"
        /\ Len(log[u]) = 2 /\ log[u][1].result = Err(HttpError(500))
        /\ sent[u].total = 2
        /\ lastResp[u].status = 200

\* C9: a 429 answer is not returned as an error and moves the call to no other
\* phase, unless all the attempts of the request are used up: the call sleeps and
\* sends the same request again; and when a request is answered 429 once and then
\* 200 with a chosen candidate the call returns that candidate's id.
C9_RateLimitRetried ==
    \A u \in DOMAIN units :
        LET l == log[u]
            limited == lastResp[u].t = "http" /\ lastResp[u].status = 429
        IN
        /\ (limited /\ units[u].pc = "returned")
              => /\ units[u].res = Err(MaxRetriesError)
                 /\ sent[u].cur = max_retries
        /\ (limited /\ units[u].pc = "req" /\ sent[u].cur = 1)
              => /\ Len(l) >= 2
                 /\ l[Len(l) - 1].result = Err(MaxRetriesError)
        /\ (limited /\ units[u].pc = "req" /\ sent[u].cur > 1)
              => /\ sent[u].n429 >= 1
                 /\ l[Len(l)] = [url |-> url_of(units[u].phase, u), result |-> Pending]
        /\ (/\ sent[u].n429 = 1 /\ sent[u].cur = 2
            /\ lastResp[u].t = "http" /\ lastResp[u].status = 200 /\ lastResp[u].decodable
            /\ lastResp[u].candidates = 1 /\ Cardinality(lastResp[u].flagged) = 1)
              => /\ units[u].pc = "returned"
                 /\ units[u].res.kind = "some"
                 /\ lastResp[u].flagged = {units[u].res.id}

C9_Witness ==
    \E u \in DOMAIN units :
        /\ units[u].pc = "returned" /\ units[u].res.kind = "some"
        /\ sent[u].n429 = 1 /\ sent[u].cur = 2 /\ sent[u].total = 2
        /\ Len(log[u]) = 1

\* C10: a call returns an id only if the last answer it got was a 2xx response in
\* which a candidate flagged chosen carries that id; and a 2xx response with
\* candidates of which none is flagged chosen ends its phase with no match.
C10_OnlyChosen ==
    \A u \in DOMAIN units :
        LET l == log[u] IN
        /\ (units[u].pc = "returned" /\ units[u].res.kind = "some")
              => /\ lastResp[u].t = "http" /\ is_success(lastResp[u].status)
                 /\ units[u].res.id \in lastResp[u].flagged
        /\ (/\ lastResp[u].t = "http" /\ is_success(lastResp[u].status)
            /\ lastResp[u].decodable
            /\ lastResp[u].candidates > 0 /\ lastResp[u].nflagged = 0)
              => IF units[u].pc = "returned"
                 THEN units[u].res = OkNone /\ l[Len(l)].result = OkNone
                 ELSE /\ units[u].pc = "req" /\ sent[u].cur = 1
                      /\ Len(l) >= 2 /\ l[Len(l) - 1].result = OkNone

C10_Witness ==
    \E u \in DOMAIN units :
        /\ units[u].pc = "returned" /\ units[u].res.kind = "some"
        /\ lastResp[u].candidates = 2 /\ lastResp[u].nflagged = 1

------------------------------------------------------------------------------
(* Claims about the phases of query_affiliation *)

\* C11: whenever the quoted single-search request of phase 1 ends in an HTTP status
\* from 500 to 599, the call sends the unquoted single-search request of phase 2 for
\* the same affiliation.
C11_AnyServerErrorRetriesUnquoted ==
    \A u \in DOMAIN units :
        LET l == log[u] IN
        (Len(l) >= 1 /\ \E s \in 500..599 : l[1].result = Err(HttpError(s)))
            => Len(l) >= 2 /\ l[2].url = url_of(2, u)

\* C12: the unquoted single-search request of phase 2 is only ever sent after phase 1
\* ended in an HTTP status from 500 to 599, whatever the affiliation.
C12_Phase2OnlyAfterServerError ==
    \A u \in DOMAIN units :
        LET l == log[u] IN
        (Len(l) >= 2 /\ l[2].url = url_of(2, u))
            => \E s \in 500..599 : l[1].result = Err(HttpError(s))

\* C13: an HTTP status from 400 to 499 other than 429, in any phase and with or
\* without the broad fallback, makes the call return that error at once: no request
\* follows it.
C13_ClientErrorTerminal ==
    \A u \in DOMAIN units :
        (/\ lastResp[u].t = "http"
         /\ lastResp[u].status \in 400..499
         /\ lastResp[u].status # 429)
            => /\ units[u].pc = "returned"
               /\ units[u].res = Err(HttpError(lastResp[u].status))

\* C14: without the broad fallback, an error of phase 1 that is no server error, and
\* any error of phase 2, is what the call returns, and no request follows it.
C14_ErrorsSurfacedWithoutFallback ==
    \A u \in DOMAIN units :
        LET l == log[u] IN
        ~fallback_multi =>
            /\ (/\ Len(l) >= 1
                /\ l[1].result.kind = "err"
                /\ ~\E s \in 500..599 : l[1].result = Err(HttpError(s)))
                  => /\ Len(l) = 1
                     /\ units[u].pc = "returned"
                     /\ units[u].res = l[1].result
            /\ (Len(l) >= 2 /\ l[2].result.kind = "err")
                  => /\ Len(l) = 2
                     /\ units[u].pc = "returned"
                     /\ units[u].res = l[2].result

\* C15: without the broad fallback every request of a call is a single-search
\* request, and a call whose last restrictive request ended with no chosen candidate
\* returns Ok(None).
C15_NoBroadWithoutFallback ==
    \A u \in DOMAIN units :
        LET l == log[u] IN
        ~fallback_multi =>
            /\ \A i \in 1..Len(l) : IsSingle(l[i].url)
            /\ Len(l) <= 2
            /\ (Len(l) >= 1 /\ l[Len(l)].result = OkNone)
                  => units[u].pc = "returned" /\ units[u].res = OkNone
            /\ (units[u].pc = "returned" /\ units[u].res.kind = "none")
                  => l[Len(l)].result = OkNone

C15_Witness ==
    \E u \in DOMAIN units :
        /\ ~fallback_multi
        /\ units[u].pc = "returned" /\ units[u].res = OkNone
        /\ Len(log[u]) = 2
        /\ log[u][1].result = Err(HttpError(500))

C17_TransportRetries ==
    \A u \in DOMAIN units :
        LET l == log[u]
            failed == lastResp[u].t = "transport"
        IN
        /\ sent[u].cur <= max_retries
        /\ (failed /\ units[u].pc = "sleep")
              => /\ units[u].attempt < max_retries - 1
                 /\ sent[u].cur = units[u].attempt + 1
                 /\ units[u].wait = pow(2, units[u].attempt)
                 /\ sent[u].cur = 1 => units[u].wait = 1
                 /\ sent[u].cur = 2 => units[u].wait = 2
        /\ (failed /\ units[u].pc = "req" /\ sent[u].cur > 1)
              => l[Len(l)] = [url |-> url_of(units[u].phase, u), result |-> Pending]
        /\ (failed /\ units[u].pc = "req" /\ sent[u].cur = 1)
              => /\ Len(l) >= 2
                 /\ l[Len(l) - 1].result = Err(TransportError(l[Len(l) - 1].url))
        /\ (failed /\ units[u].pc = "returned")
              => /\ sent[u].cur = max_retries
                 /\ units[u].res = Err(TransportError(l[Len(l)].url))
                 /\ l[Len(l)].result = units[u].res

C17_Witness ==
    \E u \in DOMAIN units :
        /\ units[u].pc = "returned"
        /\ units[u].res = Err(TransportError(url_of(1, u)))
        /\ sent[u].cur = max_retries /\ sent[u].total = max_retries /\ sent[u].n429 = 0
        /\ lastResp[u].t = "transport"

\* C18: a 429 answer never ends a request by itself: the call sleeps after it and
\* sends the same request again while attempts are left; the attempts of a request,
\* whether answered 429 or failed at the transport level, never exceed max_retries
\* (3), and only when they are used up does the request end after a 429, with
\* "Max retries exceeded".
C18_RateLimitNeverTerminal ==
    \A u \in DOMAIN units :
        LET l == log[u]
            limited == lastResp[u].t = "http" /\ lastResp[u].status = 429
        IN
        /\ sent[u].n429 <= sent[u].cur /\ sent[u].cur <= max_retries
        /\ limited => units[u].pc \in {"sleep", "req", "returned"}
        /\ (limited /\ units[u].pc = "sleep")
              => /\ sent[u].n429 >= 1
                 /\ sent[u].cur = units[u].attempt + 1
                 /\ l[Len(l)] = [url |-> url_of(units[u].phase, u), result |-> Pending]
        /\ (limited /\ units[u].pc = "req")
              => IF sent[u].cur > 1
                 THEN l[Len(l)] = [url |-> url_of(units[u].phase, u), result |-> Pending]
                 ELSE Len(l) >= 2 /\ l[Len(l) - 1].result = Err(MaxRetriesError)
        /\ (limited /\ units[u].pc = "returned")
              => /\ sent[u].cur = max_retries
                 /\ l[Len(l)].result = Err(MaxRetriesError)
        /\ \A i \in 1..Len(l) : l[i].result # Err(HttpError(429))
        /\ (units[u].pc = "returned" /\ sent[u].n429 >= 1
            /\ lastResp[u].t = "transport")
              => /\ sent[u].cur = max_retries
                 /\ units[u].res = Err(TransportError(l[Len(l)].url))

C18_Witness ==
    \E u \in DOMAIN units :
        /\ units[u].pc = "req"
        /\ sent[u].cur = max_retries /\ sent[u].n429 = 1
        /\ lastResp[u].t = "http" /\ lastResp[u].status = 429
        /\ Len(log[u]) = 1

\* C19: after a 5xx answer the call never sleeps and never sends the same URL again:
\* the request ends at once with the error "HTTP <status>", a request that follows
\* in the same call has another URL (all the URLs of a call differ), and a call none
\* of whose requests gave an Ok result returns an error.
C19_ServerErrorNotResent ==
    \A u \in DOMAIN units :
        LET l == log[u]
            srv == lastResp[u].t = "http" /\ lastResp[u].status >= 500
        IN
        /\ srv => units[u].pc \in {"req", "returned"}
        /\ (srv /\ units[u].pc = "req")
              => /\ sent[u].cur = 1
                 /\ Len(l) >= 2
                 /\ l[Len(l) - 1].result = Err(HttpError(lastResp[u].status))
                 /\ l[Len(l)].url # l[Len(l) - 1].url
        /\ (srv /\ units[u].pc = "returned")
              => /\ units[u].res = Err(HttpError(lastResp[u].status))
                 /\ l[Len(l)].result = units[u].res
        /\ \A i, j \in 1..Len(l) : i # j => l[i].url # l[j].url
        /\ (units[u].pc = "returned" /\ \A i \in 1..Len(l) : l[i].result.kind = "err")
              => units[u].res.kind = "err"

C19_Witness ==
    \E u \in DOMAIN units :
        /\ units[u].pc = "returned" /\ units[u].res.kind = "err"
        /\ lastResp[u].t = "http" /\ lastResp[u].status >= 500
        /\ Len(log[u]) >= 2 /\ sent[u].total = Len(log[u])
        /\ log[u][1].result = Err(HttpError(500))

------------------------------------------------------------------------------
(* Claims about the waits and the sends of make_request *)

\* C33: after a 429 answer to attempt k (k = 0, 1, 2) of a request the call sleeps,
\* for the number of seconds of the answer's Retry-After header when that header is
\* there and is a non-negative integer (7, or 0), and for 2^k seconds (1, 2, 4) when
\* the header is missing, a word or a negative number; the next attempt is not sent
\* before the sleep is over.
C33_RateLimitWait ==
    \A u \in DOMAIN units :
        LET limited == lastResp[u].t = "http" /\ lastResp[u].status = 429
            k == sent[u].cur - 1
            h == lastResp[u].retry_after
        IN
        /\ (limited /\ units[u].pc = "sleep")
              => /\ k \in 0..2
                 /\ units[u].attempt = k
                 /\ units[u].wait =
                       IF h.present /\ h.value = <<"7">> THEN 7
                       ELSE IF h.present /\ h.value = <<"0">> THEN 0
                       ELSE <<1, 2, 4>>[k + 1]
        /\ (limited /\ units[u].pc = "req" /\ sent[u].cur > 1)
              => sent[u].n429 >= 1 /\ units[u].wait = 0

C33_Witness ==
    \E u \in DOMAIN units :
        /\ units[u].pc = "sleep"
        /\ lastResp[u].status = 429
        /\ lastResp[u].retry_after = [present |-> TRUE, value |-> <<"-", "1">>]
        /\ sent[u].cur = 3 /\ sent[u].n429 = 3
        /\ units[u].wait = 4

\* C34: the unquoted broad request is sent if and only if the quoted broad request
\* ended in an error: it follows that request at once, it is a single logical
\* request and the last one of the call, and the call returns what it gave, be it a
\* match, no match or an error.
C34_UnquotedBroadAfterError ==
    \A u \in DOMAIN units :
        LET l == log[u]
            broad == {i \in 1..Len(l) : l[i].url = url_of(3, u)}
            last == {i \in 1..Len(l) : l[i].url = url_of(4, u)}
        IN
        /\ \A i \in last :
              /\ ~IsQuoted(l[i].url) /\ ~IsSingle(l[i].url)
              /\ fallback_multi
              /\ i > 1 /\ (i - 1) \in broad /\ l[i - 1].result.kind = "err"
              /\ i = Len(l)
        /\ Cardinality(last) <= 1
        /\ \A i \in broad :
              /\ l[i].result.kind = "err" => (i + 1) \in last
              /\ l[i].result.kind \in {"some", "none"} => last = {}
        /\ \A i \in last :
              IF l[i].result = Pending
              THEN units[u].pc \in {"req", "sleep"}
              ELSE units[u].pc = "returned" /\ units[u].res = l[i].result

C34_Witness ==
    \E u \in DOMAIN units :
        LET l == log[u] IN
        /\ units[u].pc = "returned" /\ units[u].res.kind = "some"
        /\ Len(l) = 3
        /\ l[2].url = url_of(3, u) /\ l[2].result = Err(HttpError(404))
        /\ l[3].url = url_of(4, u)

\* C35: whatever the registry answers, a call sends each logical request at most 3
\* times and makes at most 2 logical requests (6 sends) without the broad fallback
\* and at most 4 (12 sends) with it; every step of a call that has not returned
\* either sends, or uses up one of these attempts, or returns.
C35_BoundedSends ==
    \A u \in DOMAIN units :
        LET requests == IF fallback_multi THEN 4 ELSE 2 IN
        /\ sent[u].cur <= 3
        /\ Len(log[u]) <= requests
        /\ sent[u].total <= 3 * requests
        /\ Len(log[u]) >= 1 => sent[u].total <= 3 * (Len(log[u]) - 1) + sent[u].cur
        /\ units[u].pc \in {"req", "sleep"} => sent[u].cur = units[u].attempt + 1
        /\ units[u].pc = "returned" => units[u].res # Pending

C35_Witness ==
    \E u \in DOMAIN units :
        /\ fallback_multi
        /\ units[u].pc = "returned"
        /\ sent[u].total = 12
        /\ Len(log[u]) = 4

\* C39 as stated: with the broad fallback, once a single-search request (phase 1 or
\* 2) has ended in an error the call makes the quoted broad request and returns
\* exactly what its last broad request gave.
C39_BroadAlwaysIssued ==
    \A u \in DOMAIN units :
        LET l == log[u]
            errored == {i \in 1..Len(l) : IsSingle(l[i].url) /\ l[i].result.kind = "err"}
        IN
        (fallback_multi /\ errored # {} /\ units[u].pc = "returned") =>
            /\ \E j \in 1..Len(l) : l[j].url = url_of(3, u)
            /\ l[Len(l)].url \in {url_of(3, u), url_of(4, u)}
            /\ units[u].res = l[Len(l)].result

\* C39: with the broad fallback, a single-search request (phase 1 or 2) that ended
\* in an error, of whatever kind, never ends the call: another request follows it.
\* Unless the unquoted single-search request that followed an error of phase 1
\* found a match, which the call returns at once, the quoted broad request is made
\* and the call returns exactly what the last broad request gave, which can be
\* Ok(None).
C39_RestrictiveErrorsNotReturned ==
    \A u \in DOMAIN units :
        LET l == log[u]
            errored == {i \in 1..Len(l) : IsSingle(l[i].url) /\ l[i].result.kind = "err"}
            rescued == Len(l) = 2 /\ l[2].url = url_of(2, u) /\ l[2].result.kind = "some"
        IN
        (fallback_multi /\ errored # {}) =>
            /\ \A i \in errored :
                  /\ Len(l) > i
                  /\ l[i + 1].url = url_of(3, u) \/ (i = 1 /\ l[2].url = url_of(2, u))
            /\ units[u].pc = "returned"
                  => /\ units[u].res = l[Len(l)].result
                     /\ rescued \/ l[Len(l)].url \in {url_of(3, u), url_of(4, u)}
                     /\ rescued \/ \E j \in 1..Len(l) : l[j].url = url_of(3, u)
            /\ rescued => units[u].pc = "returned"

C39_Witness ==
    \E u \in DOMAIN units :
        LET l == log[u] IN
        /\ fallback_multi
        /\ units[u].pc = "returned" /\ units[u].res = OkNone
        /\ Len(l) = 3
        /\ l[1].result = Err(HttpError(500))
        /\ l[2].result = Err(DecodeError)
        /\ l[3].url = url_of(3, u)

------------------------------------------------------------------------------
(* Claims about the fingerprint *)

\* C29: every call of hash_affiliation returns a string of exactly 16 hexadecimal
\* characters, for the empty string and non-ASCII strings as for any other, and two
\* calls on equal strings return equal fingerprints.
C29_FingerprintFixedWidth ==
    LET hex == {HexDigit(d) : d \in 0..15} IN
    /\ \A i \in 1..Len(hashes) :
          /\ Len(hashes[i].output) = 16
          /\ \A k \in 1..Len(hashes[i].output) : hashes[i].output[k] \in hex
    /\ \A i, j \in 1..Len(hashes) :
          hashes[i].input = hashes[j].input => hashes[i].output = hashes[j].output

C29_Witness ==
    /\ Len(hashes) = 3
    /\ hashes[1].input = AffEmpty
    /\ hashes[2].input = AffAccent
    /\ hashes[3].input = AffEmpty
    /\ hashes[1].output # hashes[2].output

------------------------------------------------------------------------------
(* Claims about reconcile *)

\* C30: every enriched record lists at least one author, in increasing author_idx
\* order, each with at least one affiliation; and when reconcile is done the enriched
\* records are, in order, one for each group of consecutive records of one DOI without
\* an existing ROR id in which some affiliation hash is in the lookup, none for the
\* other groups, with exactly the authors that have a matched affiliation, each with
\* exactly its matched affiliations.
C30_OneEnrichedPerGroup ==
    reconcile.pc \in {"reading", "done"} =>
        LET L == reconcile.ror_lookup
            e == reconcile.enriched
            parsed == SelectSeq(reconcile.input, LAMBDA l : l.ok)
            un == SelectSeq([i \in 1..Len(parsed) |-> parsed[i].record],
                            LAMBDA r : r.existing_ror_id = Null)
            starts == {i \in 1..Len(un) : i = 1 \/ un[i].doi # un[i - 1].doi}
            last(i) == CHOOSE k \in i..Len(un) :
                          /\ \A m \in i..k : un[m].doi = un[i].doi
                          /\ k = Len(un) \/ un[k + 1].doi # un[i].doi
            matchedIn(i) == {k \in i..last(i) : un[k].affiliation_hash \in DOMAIN L}
            hits == {i \in starts : matchedIn(i) # {}}
            nth(n) == CHOOSE i \in hits : Cardinality({j \in hits : j < i}) = n - 1
            mine(i, idx) == SelectSeq(SubSeq(un, i, last(i)),
                                      LAMBDA r : r.author_idx = idx
                                                 /\ r.affiliation_hash \in DOMAIN L)
        IN /\ \A n \in 1..Len(e) :
                LET cs == e[n].creators IN
                /\ Len(cs) >= 1
                /\ \A c \in 1..Len(cs) : Len(cs[c].affiliation) >= 1
                /\ \A c, d \in 1..Len(cs) :
                      c < d => idx_of(cs[c].name) < idx_of(cs[d].name)
           /\ Len(e) <= Cardinality(starts)
           /\ reconcile.pc = "done" =>
                /\ Len(e) = Cardinality(hits)
                /\ \A n \in 1..Len(e) :
                      LET i == nth(n)
                          cs == e[n].creators
                      IN /\ e[n].doi = un[i].doi
                         /\ {cs[c].name : c \in 1..Len(cs)}
                               = {un[k].author_name : k \in matchedIn(i)}
                         /\ \A c \in 1..Len(cs) :
                               LET m == mine(i, idx_of(cs[c].name)) IN
                               cs[c].affiliation
                                   = [j \in 1..Len(m) |->
                                        EnrichedAffiliation(m[j].affiliation,
                                                            L[m[j].affiliation_hash])]

C30_Witness ==
    /\ reconcile.pc = "done"
    /\ Len(reconcile.input) = 3
    /\ \A i \in 1..3 : reconcile.input[i].ok /\ reconcile.input[i].record.existing_ror_id = Null
    /\ reconcile.input[1].record.author_idx = 1
    /\ reconcile.input[2].record.author_idx = 0
    /\ reconcile.input[2].record.affiliation = AffB
    /\ reconcile.input[3].record.author_idx = 0
    /\ Len(reconcile.enriched) = 1
    /\ Len(reconcile.enriched[1].creators) = 2
    /\ Len(reconcile.enriched[1].creators[1].affiliation) = 1

------------------------------------------------------------------------------
(* Claims about the checkpoint store *)

\* C5: after a save of the set S, a load of the same path gives a checkpoint whose
\* is_processed is true exactly for the members of S, whatever the file held before.
C5_SaveLoadRoundTrip ==
    (ckLast.op = "load" /\ ckLast.ok /\ ckSaved.valid)
        => \A f \in Fingerprints : is_processed(checkpoint, f) <=> f \in ckSaved.set

\* A load right after a save of two fingerprints, one fingerprint never marked.
C5_Witness ==
    /\ ckLast.op = "load" /\ ckLast.ok /\ ckSaved.valid
    /\ Cardinality(ckSaved.set) = 2
    /\ \E f \in Fingerprints : f \notin ckSaved.set /\ ~is_processed(checkpoint, f)

====
